---------------------------- MODULE Spec2Model ----------------------------
(***************************************************************************)
(* Temporal ledger (properties, listing_history), day-over-day change      *)
(* classifier and date-aware accuracy report of baulkandcastle_scraper.py, *)
(* the rolling average of price per m2 of the valuation models, the daily  *)
(* summary and the scraper runs that write it, and the tool executions of  *)
(* api/tools.py with the summary extracted from a tool's output.           *)
(*                                                                         *)
(* Conventions.                                                            *)
(*  - A capture date 'YYYY-MM-DD' is a day number 1..MaxDate; the string   *)
(*    order of ISO dates is the order of the day numbers.                  *)
(*  - A nullable column holds None (<<>>) or Some(x) (<<x>>).              *)
(*  - A display price is a sequence of one-character strings, so that      *)
(*    str.strip() and str.lower() are computed character by character.     *)
(*  - A table is a bag (multiset) of rows; uniqueness of a key is what the *)
(*    statements executed against the table make of it.                    *)
(***************************************************************************)
EXTENDS Integers, Sequences, FiniteSets, Bags, TLC

VARIABLES
    today,                    \* datetime.now() as a capture date
    properties,               \* table properties
    listing_history,          \* table listing_history
    xgboost_predictions,      \* table xgboost_predictions
    domain_estimates,         \* table domain_estimates
    domain_estimates_history, \* table domain_estimates_history
    raised,                   \* the last save_listings call ended in an exception
    skipped,                  \* ids whose SOLD record the last call skipped
    df,                       \* the DataFrame of sold samples
    rolling_avg,              \* the last call of compute_rolling_avg_price_per_m2
    rolling_avg_cache,        \* PropertyValuationModel.rolling_avg_cache
    comparisons,              \* the list 'comparisons' of the accuracy report
    stats,                    \* the dict 'stats' of the last accuracy report
    winners,                  \* the winner column of the last accuracy section
    save_call,                \* the save_listings call in progress or just ended
    locked,                   \* another connection holds a lock on the store
    daily_summary,            \* table daily_summary
    run,                      \* the run_all or run_daily in progress or just ended
    tool_executions,          \* table tool_executions, a row per execution id
    worker,                   \* the _run_tool call of each execution id
    process,                  \* the subprocess of each execution id
    running_processes,        \* the keys of _running_processes
    cancel_returned,          \* the values cancel_execution has returned, per id
    tool_output,              \* stdout, stderr and tool id of a finished tool
    summary                   \* what _extract_summary returned for tool_output

vars == <<today, properties, listing_history,
          xgboost_predictions, domain_estimates, domain_estimates_history,
          raised, skipped, df, rolling_avg, rolling_avg_cache,
          comparisons, stats, winners, save_call, locked, daily_summary, run,
          tool_executions, worker, process, running_processes, cancel_returned,
          tool_output, summary>>

ledgerVars == <<properties, listing_history>>
callVars == <<raised, skipped>>
estimateVars == <<xgboost_predictions, domain_estimates, domain_estimates_history>>

mlVars == <<df, rolling_avg, rolling_avg_cache>>
reportVars == <<comparisons, stats, winners>>
storeVars == <<save_call, locked>>
runVars == <<daily_summary, run>>
toolVars == <<tool_executions, worker, process, running_processes, cancel_returned>>
summaryVars == <<tool_output, summary>>
extVars == <<reportVars, storeVars, runVars, toolVars, summaryVars>>

---------------------------------------------------------------------------
\* Bounds of the model.
MaxDate == 3
MaxRows == 3
MaxBatch == 2
MaxLedgerDate == 2
MaxLedgerRows == 3
MaxLatestDate == 3
MaxLatestRows == 3
MaxCatalogDate == 2
MaxCatalogRows == 3
MaxSamples == 5
MaxSoldDate == 2
DaysPerMonth == 2
MaxAccDate == 3
MaxAccRows == 3

Dates == 1..MaxDate
PropertyIds == {"P1", "P2"}

None == <<>>
Some(x) == <<x>>

\* Python's `x or default` on a nullable column.
OrElse(opt, default) == IF opt = None THEN default ELSE opt[1]

MaxOf(S) == CHOOSE x \in S : \A y \in S : y <= x

---------------------------------------------------------------------------
\* Display-price strings.

IsSpace(c) == c \in {" ", "\t", "\n", "\r"}

lower_char(c) ==
    CASE c = "A" -> "a"
      [] c = "B" -> "b"
      [] c = "C" -> "c"
      [] c = "D" -> "d"
      [] c = "E" -> "e"
      [] c = "F" -> "f"
      [] c = "G" -> "g"
      [] c = "H" -> "h"
      [] c = "I" -> "i"
      [] c = "J" -> "j"
      [] c = "K" -> "k"
      [] c = "L" -> "l"
      [] c = "M" -> "m"
      [] c = "N" -> "n"
      [] c = "O" -> "o"
      [] c = "P" -> "p"
      [] c = "Q" -> "q"
      [] c = "R" -> "r"
      [] c = "S" -> "s"
      [] c = "T" -> "t"
      [] c = "U" -> "u"
      [] c = "V" -> "v"
      [] c = "W" -> "w"
      [] c = "X" -> "x"
      [] c = "Y" -> "y"
      [] c = "Z" -> "z"
      [] OTHER -> c

\* str.lower()
lower(s) == [i \in 1..Len(s) |-> lower_char(s[i])]

RECURSIVE lstrip(_)
lstrip(s) == IF s # <<>> /\ IsSpace(Head(s)) THEN lstrip(Tail(s)) ELSE s

RECURSIVE rstrip(_)
rstrip(s) ==
    IF s # <<>> /\ IsSpace(s[Len(s)]) THEN rstrip(SubSeq(s, 1, Len(s) - 1)) ELSE s

\* str.strip()
strip(s) == rstrip(lstrip(s))

\* The (price_display, price_value) pairs a scraped listing carries.
Auction == <<"A", "u">>
AuctionLowerPadded == <<"a", "u", " ">>
Price1 == <<"$", "1">>
Price2 == <<"$", "2">>

SalePrices ==
    { [price_display |-> Some(Auction),            price_value |-> 0],
      [price_display |-> Some(AuctionLowerPadded), price_value |-> 1000000],
      [price_display |-> Some(Price1),             price_value |-> 1000000],
      [price_display |-> Some(Price2),             price_value |-> 1050000],
      [price_display |-> None,                     price_value |-> 0] }

SoldPrices ==
    { [price_display |-> Some(Price1), price_value |-> 1000000] }

\* The address, suburb and url a scraped listing carries.
Details1 == [address |-> "1 First St", suburb |-> "CASTLE HILL", url |-> "/first-1"]
Details2 == [address |-> "1 First Street", suburb |-> "BAULKHAM HILLS",
             url |-> "/first-street-1"]

\* PropertyListing objects handed to save_listings by the diff scenarios: P1
\* is listed at any of SalePrices, P2 at $1, and either is sold at SoldPrices.
Listings ==
    { [id |-> "P1", status |-> "sale", price_display |-> p.price_display,
       price_value |-> p.price_value, sold_date_iso |-> None,
       address |-> Details1.address, suburb |-> Details1.suburb,
       url |-> Details1.url]
        : p \in SalePrices }
    \cup
    { [id |-> "P2", status |-> "sale", price_display |-> Some(Price1),
       price_value |-> 1000000, sold_date_iso |-> None,
       address |-> Details1.address, suburb |-> Details1.suburb,
       url |-> Details1.url] }
    \cup
    { [id |-> i, status |-> "sold", price_display |-> p.price_display,
       price_value |-> p.price_value, sold_date_iso |-> None,
       address |-> Details1.address, suburb |-> Details1.suburb,
       url |-> Details1.url]
        : i \in PropertyIds, p \in SoldPrices }

\* PropertyListing objects handed to save_listings by the ledger scenarios: P1
\* is listed and sold at either of two prices, P2 at one.
LedgerListings ==
    { [id |-> "P1", status |-> st, price_display |-> Some(Price1),
       price_value |-> 1000000, sold_date_iso |-> None,
       address |-> Details1.address, suburb |-> Details1.suburb,
       url |-> Details1.url]
        : st \in {"sale", "sold"} }
    \cup
    { [id |-> "P1", status |-> st, price_display |-> Some(Price2),
       price_value |-> 1050000, sold_date_iso |-> None,
       address |-> Details1.address, suburb |-> Details1.suburb,
       url |-> Details1.url]
        : st \in {"sale", "sold"} }
    \cup
    { [id |-> "P2", status |-> st, price_display |-> Some(Price1),
       price_value |-> 1000000, sold_date_iso |-> None,
       address |-> Details1.address, suburb |-> Details1.suburb,
       url |-> Details1.url]
        : st \in {"sale", "sold"} }

RECURSIVE SeqsUpTo(_, _)
SeqsUpTo(S, n) ==
    IF n = 0 THEN {<<>>}
    ELSE LET shorter == SeqsUpTo(S, n - 1)
         IN shorter \cup {Append(q, x) : q \in shorter, x \in S}

\* The lists of listings one save_listings call of the ledger scenarios gets.
Batches == SeqsUpTo(LedgerListings, MaxBatch) \ {<<>>}

---------------------------------------------------------------------------
\* The ledger store.

Rows(table) == BagToSet(table)

HistoryRow(l, today_str) ==
    [property_id |-> l.id, date |-> today_str, status |-> l.status,
     price_display |-> l.price_display, price_value |-> l.price_value,
     sold_date_iso |-> l.sold_date_iso]

SameKey(r, row) ==
    /\ r.property_id = row.property_id
    /\ r.date = row.date
    /\ r.status = row.status

\* Mutant: only a stored row equal to row in every column is replaced.
without_key_identical(table, row) ==
    LET keep == { r \in Rows(table) : r # row }
    IN [r \in keep |-> table[r]]

\* Rows of listing_history other than those with row's primary key
\* (property_id, date, status).
without_key(table, row) ==
    LET keep == { r \in Rows(table) : ~ SameKey(r, row) }
    IN [r \in keep |-> table[r]]

\* Mutant: the table has no primary key, so the statement only appends.
sql_insert_or_replace_no_key(table, row) == table (+) SetToBag({row})

\* INSERT OR REPLACE INTO listing_history: the row of the same primary key,
\* if any, is deleted first.
sql_insert_or_replace(table, row) == without_key(table, row) (+) SetToBag({row})

\* INSERT INTO listing_history raises sqlite3.IntegrityError on a row whose
\* primary key is already in the table.
sql_insert_conflicts(table, row) == \E r \in Rows(table) : SameKey(r, row)

sql_insert(table, row) == table (+) SetToBag({row})

\* SELECT 1 FROM listing_history WHERE property_id = ? AND status = 'sold'
has_sold_row(table, id) ==
    \E r \in Rows(table) : r.property_id = id /\ r.status = "sold"

\* INSERT INTO properties (property_id, address, suburb, first_seen, url); the
\* column in_excelsior_catchment takes its default.
new_property(l, today_str) ==
    [property_id |-> l.id, address |-> l.address,
     suburb |-> l.suburb, first_seen |-> today_str, url |-> l.url,
     in_excelsior_catchment |-> 0]

\* Mutant: INSERT OR REPLACE INTO properties, whether the property is known or
\* not.
save_property_replace(table, l, today_str) ==
    { p \in table : p.property_id # l.id } \cup {new_property(l, today_str)}

\* Step 1 of the loop of save_listings: the property is inserted when no row of
\* properties has its id.
save_property(table, l, today_str) ==
    IF \E p \in table : p.property_id = l.id
    THEN table
    ELSE table \cup {new_property(l, today_str)}

\* PropertyDB.update_catchment_flags: every flag is reset to 0, then set to 1 for
\* the ids of catchment_ids.
update_catchment_flags(table, catchment_ids) ==
    { [p EXCEPT !.in_excelsior_catchment =
                    IF p.property_id \in catchment_ids THEN 1 ELSE 0] : p \in table }

\* The state of the transaction save_listings runs in: the two tables, whether a
\* statement has raised, and the ids whose SOLD record was skipped.
Txn(db) ==
    [properties |-> db.properties, listing_history |-> db.listing_history,
     error |-> FALSE, skipped |-> {}]

\* Mutant: a SOLD record is stored like a FOR_SALE one, without the lookup of
\* an earlier SOLD row.
save_listing_no_sold_lookup(txn, l, today_str) ==
    LET props == save_property(txn.properties, l, today_str)
        row == HistoryRow(l, today_str)
    IN IF txn.error THEN txn
       ELSE [txn EXCEPT !.properties = props,
                        !.listing_history =
                            sql_insert_or_replace(txn.listing_history, row)]

\* Mutant: a SOLD record of an already sold property refreshes the stored row.
save_listing_sold_refresh(txn, l, today_str) ==
    LET props == save_property(txn.properties, l, today_str)
        row == HistoryRow(l, today_str)
        others == { r \in Rows(txn.listing_history) :
                      ~ (r.property_id = l.id /\ r.status = "sold") }
    IN IF txn.error THEN txn
       ELSE IF l.status = "sold"
       THEN IF has_sold_row(txn.listing_history, l.id)
            THEN LET stored == CHOOSE r \in Rows(txn.listing_history) :
                                  r.property_id = l.id /\ r.status = "sold"
                 IN [txn EXCEPT !.properties = props,
                                !.skipped = txn.skipped \cup {l.id},
                                !.listing_history =
                                    [r \in others |-> txn.listing_history[r]]
                                    (+) SetToBag({[row EXCEPT !.date = stored.date]})]
            ELSE [txn EXCEPT !.properties = props,
                             !.listing_history = sql_insert(txn.listing_history, row)]
       ELSE [txn EXCEPT !.properties = props,
                        !.listing_history =
                            sql_insert_or_replace(txn.listing_history, row)]

\* Mutant: a FOR_SALE record replaces the property's FOR_SALE rows of every
\* date, so that the table keeps the latest snapshot only.
save_listing_latest_only(txn, l, today_str) ==
    LET props == save_property(txn.properties, l, today_str)
        row == HistoryRow(l, today_str)
        others == { r \in Rows(txn.listing_history) :
                      ~ (r.property_id = l.id /\ r.status = "sale") }
    IN IF txn.error THEN txn
       ELSE IF l.status = "sold"
       THEN IF has_sold_row(txn.listing_history, l.id)
            THEN [txn EXCEPT !.properties = props,
                             !.skipped = txn.skipped \cup {l.id}]
            ELSE IF sql_insert_conflicts(txn.listing_history, row)
            THEN [txn EXCEPT !.error = TRUE]
            ELSE [txn EXCEPT !.properties = props,
                             !.listing_history = sql_insert(txn.listing_history, row)]
       ELSE [txn EXCEPT !.properties = props,
                        !.listing_history =
                            [r \in others |-> txn.listing_history[r]]
                            (+) SetToBag({row})]

\* One iteration of the loop of save_listings.
save_listing(txn, l, today_str) ==
    LET props == save_property(txn.properties, l, today_str)
        row == HistoryRow(l, today_str)
    IN IF txn.error THEN txn
       ELSE IF l.status = "sold"
       THEN IF has_sold_row(txn.listing_history, l.id)
            THEN [txn EXCEPT !.properties = props,
                             !.skipped = txn.skipped \cup {l.id}]
            ELSE IF sql_insert_conflicts(txn.listing_history, row)
            THEN [txn EXCEPT !.error = TRUE]
            ELSE [txn EXCEPT !.properties = props,
                             !.listing_history = sql_insert(txn.listing_history, row)]
       ELSE [txn EXCEPT !.properties = props,
                        !.listing_history =
                            sql_insert_or_replace(txn.listing_history, row)]

RECURSIVE save_loop(_, _, _)
save_loop(txn, listings, today_str) ==
    IF listings = <<>> THEN txn
    ELSE save_loop(save_listing(txn, Head(listings), today_str),
                   Tail(listings), today_str)

\* PropertyDB.save_listings: the loop runs in one transaction, committed at its
\* end and rolled back by the connection's context manager on an exception.
save_listings(db, listings, today_str) ==
    LET txn == save_loop(Txn(db), listings, today_str)
    IN IF txn.error
       THEN [properties |-> db.properties, listing_history |-> db.listing_history,
             error |-> TRUE, skipped |-> {}]
       ELSE txn

Ledger == [properties |-> properties, listing_history |-> listing_history]

---------------------------------------------------------------------------
\* The diff classifier. A query's result is the set of its rows: the rows of a
\* join are told apart by the listing_history rows they are joined from.

\* SELECT MAX(date) FROM listing_history WHERE date < ?
prev_date_of(table, target_date) ==
    LET earlier == { r.date : r \in { x \in Rows(table) : x.date < target_date } }
    IN IF earlier = {} THEN None ELSE Some(MaxOf(earlier))

\* JOIN properties p ON h.property_id = p.property_id
property_of(db, h) == { p \in db.properties : p.property_id = h.property_id }

\* First day: the FOR_SALE rows of the target date.
bootstrap_new(db, target_date) ==
    { h \in Rows(db.listing_history) :
        /\ h.date = target_date
        /\ h.status = "sale"
        /\ property_of(db, h) # {} }

\* Mutant: every row of the target date is listed as new, first seen on that
\* date or not.
new_listings_any_first_seen(db, target_date) ==
    { h \in Rows(db.listing_history) :
        h.date = target_date /\ property_of(db, h) # {} }

\* 1. NEW listings (first seen today).
new_listings(db, target_date) ==
    { h \in Rows(db.listing_history) :
        /\ h.date = target_date
        /\ \E p \in property_of(db, h) : p.first_seen = target_date }

\* A row of the joins of h_now with h_prev: h_now.* with h_prev's price columns.
JoinedRow(h_now, h_prev) ==
    [row |-> h_now, old_price |-> h_prev.price_display,
     old_price_value |-> h_prev.price_value]

\* Mutant: a SOLD row is joined with the property's FOR_SALE rows of any earlier
\* date.
sold_transitions_any_earlier(db, target_date, prev_date) ==
    { JoinedRow(h_now, h_prev) :
        <<h_now, h_prev>> \in
            { pair \in Rows(db.listing_history) \X Rows(db.listing_history) :
                /\ pair[1].property_id = pair[2].property_id
                /\ property_of(db, pair[1]) # {}
                /\ pair[1].date = target_date /\ pair[1].status = "sold"
                /\ pair[2].date < target_date /\ pair[2].status = "sale" } }

\* 2. Properties that changed to SOLD.
sold_transitions(db, target_date, prev_date) ==
    { JoinedRow(h_now, h_prev) :
        <<h_now, h_prev>> \in
            { pair \in Rows(db.listing_history) \X Rows(db.listing_history) :
                /\ pair[1].property_id = pair[2].property_id
                /\ property_of(db, pair[1]) # {}
                /\ pair[1].date = target_date /\ pair[1].status = "sold"
                /\ pair[2].date = prev_date /\ pair[2].status = "sale" } }

\* Mutant: NOT EXISTS looks for a FOR_SALE row of the target date only.
disappeared_no_sale_row(db, target_date, prev_date) ==
    { h_prev \in Rows(db.listing_history) :
        /\ h_prev.date = prev_date /\ h_prev.status = "sale"
        /\ property_of(db, h_prev) # {}
        /\ ~ \E h_now \in Rows(db.listing_history) :
                /\ h_now.property_id = h_prev.property_id
                /\ h_now.date = target_date /\ h_now.status = "sale" }

\* 3. DISAPPEARED: for sale on the previous date, no row on the target date.
disappeared(db, target_date, prev_date) ==
    { h_prev \in Rows(db.listing_history) :
        /\ h_prev.date = prev_date /\ h_prev.status = "sale"
        /\ property_of(db, h_prev) # {}
        /\ ~ \E h_now \in Rows(db.listing_history) :
                h_now.property_id = h_prev.property_id /\ h_now.date = target_date }

\* 4. The rows the price loop runs over: FOR_SALE on both dates.
price_rows(db, target_date, prev_date) ==
    { JoinedRow(h_now, h_prev) :
        <<h_now, h_prev>> \in
            { pair \in Rows(db.listing_history) \X Rows(db.listing_history) :
                /\ pair[1].property_id = pair[2].property_id
                /\ property_of(db, pair[1]) # {}
                /\ pair[1].date = target_date /\ pair[1].status = "sale"
                /\ pair[2].date = prev_date /\ pair[2].status = "sale" } }

\* (d.get(column) or '').strip()
price_text(display) == strip(OrElse(display, <<>>))

\* Mutant: the two display prices are compared as they are stored.
same_display_exact(old_display, new_display) == old_display = new_display

\* old_price.lower() == new_price.lower()
same_display(old_display, new_display) ==
    lower(price_text(old_display)) = lower(price_text(new_display))

\* Mutant: the guide test looks at a change between 0 and a positive value in
\* either direction, so a hidden price lands in guide_revealed.
classify_price_row_either_way(d) ==
    LET old_val == d.old_price_value
        new_val == d.row.price_value
    IN IF same_display(d.old_price, d.row.price_display) THEN "skip"
       ELSE IF old_val > 0 /\ new_val > 0 /\ old_val # new_val THEN "price_diff"
       ELSE IF (old_val = 0 /\ new_val > 0) \/ (new_val = 0 /\ old_val > 0)
            THEN "guide_revealed"
       ELSE "none"

\* The body of the price loop: the list, if any, the row is appended to.
classify_price_row(d) ==
    LET old_val == d.old_price_value
        new_val == d.row.price_value
    IN IF same_display(d.old_price, d.row.price_display) THEN "skip"
       ELSE IF old_val > 0 /\ new_val > 0 /\ old_val # new_val THEN "price_diff"
       ELSE IF old_val = 0 /\ new_val > 0 THEN "guide_revealed"
       ELSE IF new_val = 0 /\ old_val > 0 THEN "price_hidden"
       ELSE "none"

\* Mutant: d['price_diff'] = old_val - new_val
price_change_entry_reversed(d) ==
    [row |-> d.row, old_price |-> d.old_price, old_price_value |-> d.old_price_value,
     price_diff |-> IF classify_price_row(d) = "price_diff"
                    THEN Some(d.old_price_value - d.row.price_value) ELSE None]

\* A row appended to result['price_changes']: with price_diff for a real value
\* change, without it for a hidden price.
price_change_entry(d) ==
    [row |-> d.row, old_price |-> d.old_price, old_price_value |-> d.old_price_value,
     price_diff |-> IF classify_price_row(d) = "price_diff"
                    THEN Some(d.row.price_value - d.old_price_value) ELSE None]

\* Mutant: the first-day branch lists the rows of the target date whatever
\* their status.
first_day_result_any_status(db, target_date) ==
    [new |-> { h \in Rows(db.listing_history) : h.date = target_date },
     sold |-> {}, disappeared |-> {}, price_changes |-> {}, guide_revealed |-> {}]

\* if not prev_date: all are new
first_day_result(db, target_date) ==
    [new |-> bootstrap_new(db, target_date),
     sold |-> {}, disappeared |-> {}, price_changes |-> {}, guide_revealed |-> {}]

\* PropertyDB.get_comprehensive_daily_changes
get_comprehensive_daily_changes(db, target_date) ==
    LET prev == prev_date_of(db.listing_history, target_date)
    IN IF prev = None
       THEN first_day_result(db, target_date)
       ELSE LET prev_date == prev[1]
                rows == price_rows(db, target_date, prev_date)
            IN [new |-> new_listings(db, target_date),
                sold |-> sold_transitions(db, target_date, prev_date),
                disappeared |-> disappeared(db, target_date, prev_date),
                price_changes |->
                    { price_change_entry(d) :
                        d \in { x \in rows : classify_price_row(x)
                                                \in {"price_diff", "price_hidden"} } },
                guide_revealed |->
                    { d \in rows : classify_price_row(d) = "guide_revealed" }]

\* SQL's a != b on two nullable columns: TRUE, FALSE, or NULL when either side
\* is NULL.
sql_ne(a, b) ==
    IF a = None \/ b = None THEN "NULL"
    ELSE IF a[1] # b[1] THEN "TRUE" ELSE "FALSE"

\* A WHERE clause keeps a row when its OR of comparisons is TRUE: when one of
\* them is TRUE (a NULL one counts as not TRUE).
sql_any_true(results) == "TRUE" \in results

\* SELECT MAX(date) FROM listing_history WHERE property_id = ? AND date < ?
own_prev_date_of(table, property_id, target_date) ==
    LET earlier == { r.date : r \in { x \in Rows(table) :
                        x.property_id = property_id /\ x.date < target_date } }
    IN IF earlier = {} THEN None ELSE Some(MaxOf(earlier))

\* The second query of get_daily_changes. The listings of the scenarios carry
\* the same beds, baths, cars and land_size, so these four comparisons are
\* FALSE or NULL for every pair of rows.
adjustment_rows(db, target_date) ==
    { [row |-> pair[1], old_price |-> pair[2].price_display,
       old_status |-> pair[2].status] :
        pair \in
            { q \in Rows(db.listing_history) \X Rows(db.listing_history) :
                /\ q[1].property_id = q[2].property_id
                /\ property_of(db, q[1]) # {}
                /\ q[1].date = target_date
                /\ Some(q[2].date)
                     = own_prev_date_of(db.listing_history, q[1].property_id,
                                        target_date)
                /\ sql_any_true({ sql_ne(q[1].price_display, q[2].price_display),
                                  sql_ne(Some(q[1].status), Some(q[2].status)),
                                  "FALSE" }) } }

\* PropertyDB.get_daily_changes: the entries of type NEW and of type ADJUSTMENT.
get_daily_changes(db, target_date) ==
    [NEW |-> new_listings(db, target_date),
     ADJUSTMENT |-> adjustment_rows(db, target_date)]


---------------------------------------------------------------------------
\* Predictions, third-party estimates and the accuracy report. A timestamp
\* (datetime.now().isoformat()) is kept as its day: its first ten characters.

\* get_listings_for_prediction / predict_all_listings: the properties with a
\* FOR_SALE row.
listings_for_prediction(db) ==
    { r.property_id : r \in { x \in Rows(db.listing_history) : x.status = "sale" } }

\* INSERT OR REPLACE INTO xgboost_predictions, one row per property in ids.
save_xgboost_predictions(table, ids, price, now) ==
    { r \in table : r.property_id \notin ids }
        \cup { [property_id |-> id, predicted_price |-> price, predicted_at |-> now]
                 : id \in ids }

\* get_for_sale_properties(mode='all'): the properties whose row of their latest
\* capture date is a FOR_SALE row.
for_sale_properties(db) ==
    { p.property_id : p \in
        { q \in db.properties :
            \E h \in Rows(db.listing_history) :
                /\ h.property_id = q.property_id
                /\ h.status = "sale"
                /\ \A x \in Rows(db.listing_history) :
                      x.property_id = q.property_id => x.date <= h.date } }

EstimateRow(id, mid, now) ==
    [property_id |-> id, estimate_mid |-> mid, scraped_at |-> now]

\* save_estimate: INSERT OR REPLACE INTO domain_estimates
save_estimate_current(table, id, mid, now) ==
    { r \in table : r.property_id # id } \cup {EstimateRow(id, mid, now)}

\* save_estimate: INSERT INTO domain_estimates_history
save_estimate_history(table, id, mid, now) == table \cup {EstimateRow(id, mid, now)}

\* ORDER BY column DESC LIMIT 1 over rows: one of the rows with the greatest key.
Latest(rows, Key(_)) ==
    IF rows = {} THEN None
    ELSE Some(CHOOSE r \in rows : \A x \in rows : Key(x) <= Key(r))

DateOf(r) == r.date
PredictedAt(r) == r.predicted_at
ScrapedAt(r) == r.scraped_at

\* The sold properties the report runs over: SOLD rows with a positive price.
sold_properties(db) ==
    { h \in Rows(db.listing_history) :
        /\ h.status = "sold" /\ h.price_value > 0
        /\ \E p \in db.properties : p.property_id = h.property_id }

\* The comparison built for one sold row; est is the store of the three tables.
comparison_of(db, est, sold) ==
    LET prop_id == sold.property_id
        listing == Latest({ r \in Rows(db.listing_history) :
                              r.property_id = prop_id /\ r.status = "sale" }, DateOf)
        xgb == Latest({ r \in est.xgboost_predictions : r.property_id = prop_id },
                      PredictedAt)
        hist == Latest({ r \in est.domain_estimates_history :
                           r.property_id = prop_id }, ScrapedAt)
        domain == IF hist = None
                  THEN Latest({ r \in est.domain_estimates :
                                  r.property_id = prop_id }, ScrapedAt)
                  ELSE hist
        listed == listing # None /\ listing[1].price_value > 0
        hasXgb == xgb # None /\ xgb[1].predicted_price # 0
        hasDomain == domain # None /\ domain[1].estimate_mid # 0
    IN [property_id |-> prop_id,
        sold_price |-> sold.price_value,
        sold_date_iso |-> OrElse(sold.sold_date_iso, sold.date),
        record_date |-> sold.date,
        listed_price |-> IF listed THEN Some(listing[1].price_value) ELSE None,
        listed_date |-> IF listed THEN Some(listing[1].date) ELSE None,
        xgboost_price |-> IF hasXgb THEN Some(xgb[1].predicted_price) ELSE None,
        xgboost_date |-> IF hasXgb THEN Some(xgb[1].predicted_at) ELSE None,
        domain_estimate |-> IF hasDomain THEN Some(domain[1].estimate_mid) ELSE None,
        domain_date |-> IF hasDomain THEN Some(domain[1].scraped_at) ELSE None]

\* PropertyDB.get_prediction_accuracy_report: the list 'comparisons'.
get_prediction_accuracy_report(db, est) ==
    { c \in { comparison_of(db, est, sold) : sold \in sold_properties(db) } :
        c.listed_price # None \/ c.xgboost_price # None \/ c.domain_estimate # None }

\* LEFT JOIN table ON h.property_id = table.property_id: the matching rows, or
\* one NULL row when there is none.
left_join(table, property_id) ==
    LET matching == { r \in table : r.property_id = property_id }
    IN IF matching = {} THEN {None} ELSE { Some(r) : r \in matching }

\* The rows a LEFT JOIN with table contributes over all properties.
joined_rows(table) == UNION { left_join(table, id) : id \in PropertyIds }

\* Mutant: the date is the property's MAX(date) over its rows of every status.
get_latest_listings_any_status(db, est, status) ==
    { [row |-> h, first_seen |-> p.first_seen, de |-> de, xp |-> xp] :
        <<h, p, de, xp>> \in
            { q \in Rows(db.listing_history) \X db.properties
                      \X joined_rows(est.domain_estimates)
                      \X joined_rows(est.xgboost_predictions) :
                /\ q[2].property_id = q[1].property_id
                /\ q[3] \in left_join(est.domain_estimates, q[1].property_id)
                /\ q[4] \in left_join(est.xgboost_predictions, q[1].property_id)
                /\ q[1].status = status
                /\ \A x \in Rows(db.listing_history) :
                      x.property_id = q[1].property_id => x.date <= q[1].date } }

\* PropertyDB.get_latest_listings: the rows of the given status dated the
\* property's MAX(date) among its rows of that status, joined with the
\* property, its estimate and its prediction.
get_latest_listings(db, est, status) ==
    { [row |-> h, first_seen |-> p.first_seen, de |-> de, xp |-> xp] :
        <<h, p, de, xp>> \in
            { q \in Rows(db.listing_history) \X db.properties
                      \X joined_rows(est.domain_estimates)
                      \X joined_rows(est.xgboost_predictions) :
                /\ q[2].property_id = q[1].property_id
                /\ q[3] \in left_join(est.domain_estimates, q[1].property_id)
                /\ q[4] \in left_join(est.xgboost_predictions, q[1].property_id)
                /\ q[1].status = status
                /\ \A x \in Rows(db.listing_history) :
                      (x.property_id = q[1].property_id /\ x.status = status)
                          => x.date <= q[1].date } }

Estimates ==
    [xgboost_predictions |-> xgboost_predictions,
     domain_estimates |-> domain_estimates,
     domain_estimates_history |-> domain_estimates_history]

---------------------------------------------------------------------------
\* The rolling average of price per m2. A date is a day number; a float is a
\* fraction <<numerator, denominator>>, so that a mean is exact.

\* The least number of samples an average is taken over.
MinSamples == 5

\* The last-resort value of compute_rolling_avg_price_per_m2.
DefaultRollingAvg == 5000

\* The value PropertyValuationModel caches for an average that is NaN.
LegacyDefaultRollingAvg == 10000

\* str.upper() on the suburb names of the scenarios.
upper(suburb) ==
    CASE suburb = "castle hill" -> "CASTLE HILL"
      [] suburb = "baulkham hills" -> "BAULKHAM HILLS"
      [] OTHER -> suburb

\* df.loc[mask]: the rows of df that satisfy Keep, with their copies.
loc(frame, Keep(_)) == [r \in { x \in BagToSet(frame) : Keep(x) } |-> frame[r]]

\* len(subset)
len(frame) == BagCardinality(frame)

RECURSIVE sum_of(_, _)
sum_of(frame, rows) ==
    IF rows = {} THEN 0
    ELSE LET r == CHOOSE x \in rows : TRUE
         IN frame[r] * r.price_per_m2[1] + sum_of(frame, rows \ {r})

\* subset.mean(), of a subset that is not empty.
mean(frame) == <<sum_of(frame, BagToSet(frame)), len(frame)>>

\* price_per_m2.notna() & (price_per_m2 > 0)
valid_price(r) == r.price_per_m2 # None /\ r.price_per_m2[1] > 0

\* compute_rolling_avg_price_per_m2 of baulkandcastle.ml.feature_engineering
compute_rolling_avg_price_per_m2(frame, current_date, suburb, lookback_days) ==
    LET cutoff == current_date - lookback_days
        mask(r) == /\ upper(r.suburb) = upper(suburb)
                   /\ valid_price(r)
                   /\ r.sold_date_parsed < current_date
                   /\ r.sold_date_parsed >= cutoff
        overall_mask(r) == /\ valid_price(r)
                           /\ r.sold_date_parsed < current_date
                           /\ r.sold_date_parsed >= cutoff
        subset == loc(frame, mask)
        overall_subset == loc(frame, overall_mask)
    IN IF len(subset) >= MinSamples THEN mean(subset)
       ELSE IF len(overall_subset) >= MinSamples THEN mean(overall_subset)
       ELSE <<DefaultRollingAvg, 1>>

\* current_date.strftime('%Y-%m'): the month of a day number.
month_of(date) == (date - 1) \div DaysPerMonth

\* f"{suburb}_{current_date.strftime('%Y-%m')}"
cache_key(suburb, current_date) == <<suburb, month_of(current_date)>>

\* PropertyValuationModel._compute_rolling_avg_price_per_m2 of
\* ml/valuation_predictor.py: the value returned and the cache it leaves.
_compute_rolling_avg_price_per_m2(cache, frame, current_date, suburb, lookback_days) ==
    LET key == cache_key(suburb, current_date)
        cutoff == current_date - lookback_days
        mask(r) == /\ upper(r.suburb) = upper(suburb)
                   /\ valid_price(r)
                   /\ r.sold_date_parsed < current_date
                   /\ r.sold_date_parsed >= cutoff
        overall_mask(r) == /\ valid_price(r)
                           /\ r.sold_date_parsed < current_date
        subset == loc(frame, mask)
        overall == loc(frame, overall_mask)
        avg == IF len(subset) >= MinSamples THEN Some(mean(subset))
               ELSE IF len(overall) > 0 THEN Some(mean(overall))
               ELSE None
        value == OrElse(avg, <<LegacyDefaultRollingAvg, 1>>)
    IN IF \E e \in cache : e.key = key
       THEN [value |-> (CHOOSE e \in cache : e.key = key).value,
             rolling_avg_cache |-> cache]
       ELSE [value |-> value,
             rolling_avg_cache |-> cache \cup {[key |-> key, value |-> value]}]

---------------------------------------------------------------------------
\* No accuracy report has been made.
InitReport ==
    /\ comparisons = <<>>
    /\ stats = None
    /\ winners = None

\* No call of save_listings has been made and no connection holds a lock.
InitStore ==
    /\ save_call = None
    /\ locked = FALSE

\* daily_summary is empty and no run has been started.
InitRun ==
    /\ daily_summary = {}
    /\ run = None

\* No tool has been started.
InitTools ==
    /\ tool_executions = <<>>
    /\ worker = <<>>
    /\ process = <<>>
    /\ running_processes = {}
    /\ cancel_returned = {}

\* No tool has produced output.
InitSummary ==
    /\ tool_output = None
    /\ summary = None

InitExt == InitReport /\ InitStore /\ InitRun /\ InitTools /\ InitSummary

Init ==
    /\ today = 1
    /\ properties = {}
    /\ listing_history = EmptyBag
    /\ xgboost_predictions = {}
    /\ domain_estimates = {}
    /\ domain_estimates_history = {}
    /\ raised = FALSE
    /\ skipped = {}
    /\ df = EmptyBag
    /\ rolling_avg = None
    /\ rolling_avg_cache = {}
    /\ InitExt

\* The clock moves on to the next day.
Tick ==
    /\ today < MaxDate
    /\ today' = today + 1
    /\ UNCHANGED <<ledgerVars, estimateVars, callVars, mlVars, extVars>>

\* PropertyDB.save_listings(<<l>>). Every ledger a sequence of calls with longer
\* lists builds is built by calls with one listing each, the loop handling the
\* listings one after the other.
SaveListings ==
    \E l \in Listings :
        \E db \in {save_listings(Ledger, <<l>>, today)} :
           /\ BagCardinality(db.listing_history) <= MaxRows
           /\ properties' = db.properties
           /\ listing_history' = db.listing_history
           /\ UNCHANGED <<today, estimateVars, callVars, mlVars, extVars>>

Next == Tick \/ SaveListings

Spec == Init /\ [][Next]_vars

---------------------------------------------------------------------------
\* The ledger scenarios: save_listings with lists of listings, its outcome kept.

LedgerTick ==
    /\ today < MaxLedgerDate
    /\ today' = today + 1
    /\ UNCHANGED <<ledgerVars, estimateVars, callVars, mlVars, extVars>>

SaveBatch ==
    \E batch \in Batches :
        \E db \in {save_listings(Ledger, batch, today)} :
           /\ BagCardinality(db.listing_history) <= MaxLedgerRows
           /\ properties' = db.properties
           /\ listing_history' = db.listing_history
           /\ raised' = db.error
           /\ skipped' = db.skipped
           /\ UNCHANGED <<today, estimateVars, mlVars, extVars>>

NextLedger == LedgerTick \/ SaveBatch

SpecLedger == Init /\ [][NextLedger]_vars

---------------------------------------------------------------------------
\* The accuracy scenarios: listings, predictions and estimates over the days.

PredictedPrice == 1100000
EstimateMid == 900000

\* The listings scraped on day now. The site lists a property for sale until it
\* lists it as sold; a sold listing carries its sale date, which is not after
\* the day it is scraped on, or none.
AccListings(now) ==
    { [id |-> i, status |-> "sale", price_display |-> Some(Price1),
       price_value |-> 1000000, sold_date_iso |-> None,
       address |-> Details1.address, suburb |-> Details1.suburb,
       url |-> Details1.url]
        : i \in { x \in PropertyIds : ~ has_sold_row(listing_history, x) } }
    \cup
    { [id |-> i, status |-> "sold", price_display |-> Some(Price2),
       price_value |-> 1050000, sold_date_iso |-> sd,
       address |-> Details1.address, suburb |-> Details1.suburb,
       url |-> Details1.url]
        : i \in PropertyIds, sd \in {None} \cup { Some(d) : d \in 1..now } }

AccTick ==
    /\ today < MaxAccDate
    /\ today' = today + 1
    /\ UNCHANGED <<ledgerVars, estimateVars, callVars, mlVars, extVars>>

AccSaveListings ==
    \E l \in AccListings(today) :
        \E db \in {save_listings(Ledger, <<l>>, today)} :
           /\ BagCardinality(db.listing_history) <= MaxAccRows
           /\ properties' = db.properties
           /\ listing_history' = db.listing_history
           /\ UNCHANGED <<today, estimateVars, callVars, mlVars, extVars>>

\* predict_all_listings: a prediction is stored for each listing it succeeds on.
PredictAllListings ==
    \E ids \in (SUBSET listings_for_prediction(Ledger)) \ {{}} :
        /\ xgboost_predictions' =
              save_xgboost_predictions(xgboost_predictions, ids, PredictedPrice, today)
        /\ UNCHANGED <<today, ledgerVars, domain_estimates,
                       domain_estimates_history, callVars, mlVars, extVars>>

\* The batch scrape of estimates, one property: save_estimate is called for a
\* property for sale whose scraped estimate has an estimate_mid.
SaveEstimate ==
    \E id \in for_sale_properties(Ledger) :
        /\ domain_estimates' =
              save_estimate_current(domain_estimates, id, EstimateMid, today)
        /\ domain_estimates_history' =
              save_estimate_history(domain_estimates_history, id, EstimateMid, today)
        /\ UNCHANGED <<today, ledgerVars, xgboost_predictions, callVars, mlVars, extVars>>

NextAcc == AccTick \/ AccSaveListings \/ PredictAllListings \/ SaveEstimate

SpecAcc == Init /\ [][NextAcc]_vars

---------------------------------------------------------------------------
\* The latest-listings scenarios: listings over the days, and predictions.

LatestTick ==
    /\ today < MaxLatestDate
    /\ today' = today + 1
    /\ UNCHANGED <<ledgerVars, estimateVars, callVars, mlVars, extVars>>

LatestSaveListings ==
    \E l \in LedgerListings :
        \E db \in {save_listings(Ledger, <<l>>, today)} :
           /\ BagCardinality(db.listing_history) <= MaxLatestRows
           /\ properties' = db.properties
           /\ listing_history' = db.listing_history
           /\ UNCHANGED <<today, estimateVars, callVars, mlVars, extVars>>

NextLatest == LatestTick \/ LatestSaveListings \/ PredictAllListings

SpecLatest == Init /\ [][NextLatest]_vars

---------------------------------------------------------------------------
\* The catalogue scenarios: a property is scraped under either of two addresses,
\* and the catchment flags are updated.

CatalogListings ==
    { [id |-> i, status |-> st, price_display |-> Some(Price1),
       price_value |-> 1000000, sold_date_iso |-> None,
       address |-> d.address, suburb |-> d.suburb, url |-> d.url]
        : i \in PropertyIds, st \in {"sale", "sold"}, d \in {Details1, Details2} }

\* The ids scrape_catchment_property_ids may return: those of the scenarios and
\* one of a property that was never stored.
CatchmentIds == PropertyIds \cup {"P9"}

CatalogTick ==
    /\ today < MaxCatalogDate
    /\ today' = today + 1
    /\ UNCHANGED <<ledgerVars, estimateVars, callVars, mlVars, extVars>>

CatalogSaveListings ==
    \E l \in CatalogListings :
        \E db \in {save_listings(Ledger, <<l>>, today)} :
           /\ BagCardinality(db.listing_history) <= MaxCatalogRows
           /\ properties' = db.properties
           /\ listing_history' = db.listing_history
           /\ UNCHANGED <<today, estimateVars, callVars, mlVars, extVars>>

UpdateCatchmentFlags ==
    \E catchment_ids \in SUBSET CatchmentIds :
        /\ properties' = update_catchment_flags(properties, catchment_ids)
        /\ UNCHANGED <<today, listing_history, estimateVars, callVars, mlVars, extVars>>

NextCatalog == CatalogTick \/ CatalogSaveListings \/ UpdateCatchmentFlags

SpecCatalog == Init /\ [][NextCatalog]_vars

---------------------------------------------------------------------------
\* The rolling-average scenarios: a DataFrame of sold samples, and calls of the
\* two implementations on it.

\* The rows a DataFrame is made of: a sale in either suburb on any day, each
\* suburb at its own price per m2, and a sale without a price per m2.
SampleKinds ==
    { [suburb |-> "CASTLE HILL", price_per_m2 |-> Some(6000),
       sold_date_parsed |-> d] : d \in 1..MaxSoldDate }
    \cup
    { [suburb |-> "BAULKHAM HILLS", price_per_m2 |-> Some(9000),
       sold_date_parsed |-> d] : d \in 1..MaxSoldDate }
    \cup
    { [suburb |-> "CASTLE HILL", price_per_m2 |-> None, sold_date_parsed |-> 1] }

\* The DataFrames of at most n rows, each a row of kinds.
RECURSIVE frames_of(_, _)
frames_of(kinds, n) ==
    IF kinds = {} THEN {EmptyBag}
    ELSE LET k == CHOOSE x \in kinds : TRUE
         IN UNION { { IF c = 0 THEN rest ELSE rest (+) (k :> c) :
                        rest \in frames_of(kinds \ {k}, n - c) } : c \in 0..n }

\* The DataFrames of at most MaxSamples rows.
DataFrames == frames_of(SampleKinds, MaxSamples)

\* The arguments of a call.
RequestSuburbs == {"castle hill", "BAULKHAM HILLS"}
CurrentDates == 1..(MaxSoldDate + 1)
Lookbacks == {1, 2}

InitRolling ==
    /\ today = 1
    /\ properties = {}
    /\ listing_history = EmptyBag
    /\ xgboost_predictions = {}
    /\ domain_estimates = {}
    /\ domain_estimates_history = {}
    /\ raised = FALSE
    /\ skipped = {}
    /\ df \in DataFrames
    /\ rolling_avg = None
    /\ rolling_avg_cache = {}
    /\ InitExt

\* A call of compute_rolling_avg_price_per_m2, its arguments and value kept.
ComputeRollingAvg ==
    \E suburb \in RequestSuburbs, current_date \in CurrentDates,
       lookback_days \in Lookbacks :
        /\ rolling_avg' =
              Some([suburb |-> suburb, current_date |-> current_date,
                    lookback_days |-> lookback_days,
                    value |-> compute_rolling_avg_price_per_m2(
                                  df, current_date, suburb, lookback_days)])
        /\ UNCHANGED <<today, ledgerVars, estimateVars, callVars, extVars, df,
                       rolling_avg_cache>>

\* A call of PropertyValuationModel._compute_rolling_avg_price_per_m2.
LegacyComputeRollingAvg ==
    \E suburb \in RequestSuburbs, current_date \in CurrentDates,
       lookback_days \in Lookbacks :
        /\ rolling_avg_cache' =
              _compute_rolling_avg_price_per_m2(
                  rolling_avg_cache, df, current_date, suburb,
                  lookback_days).rolling_avg_cache
        /\ UNCHANGED <<today, ledgerVars, estimateVars, callVars, extVars, df, rolling_avg>>

NextRolling == ComputeRollingAvg \/ LegacyComputeRollingAvg

SpecRolling == InitRolling /\ [][NextRolling]_vars

---------------------------------------------------------------------------
\* Claims about the ledger store (checked under SpecLedger).

\* The number of SOLD rows of property id, copies counted.
SoldRowCount(table, id) ==
    BagCardinality([r \in { x \in Rows(table) :
                              x.property_id = id /\ x.status = "sold" }
                      |-> table[r]])

\* The SOLD rows of property id, as a bag.
SoldRowsOf(table, id) ==
    [r \in { x \in Rows(table) : x.property_id = id /\ x.status = "sold" }
        |-> table[r]]

SoldListings == { l \in LedgerListings : l.status = "sold" }
SaleListings == { l \in LedgerListings : l.status = "sale" }

\* C1: after any sequence of save_listings calls every property has at most one
\* SOLD row in listing_history, and a SOLD record ingested for a property that
\* has one leaves both tables as they are.
C1_AtMostOneSoldRow ==
    /\ \A id \in PropertyIds : SoldRowCount(listing_history, id) <= 1
    /\ \A l \in SoldListings :
          has_sold_row(listing_history, l.id) =>
              LET after == save_listings(Ledger, <<l>>, today)
              IN /\ after.listing_history = listing_history
                 /\ after.properties = properties

\* C1 witness: a SOLD record was ingested, and skipped, on a day after the one
\* the property's SOLD row was stored on.
C1_Witness ==
    \E id \in skipped :
        \E r \in Rows(listing_history) :
            r.property_id = id /\ r.status = "sold" /\ r.date < today

\* C2: a save_listings call leaves the SOLD row of an already sold property as
\* it is, field by field, and adds no SOLD row for it; a call that skips a SOLD
\* record raises nothing, and the skipped record's property has its one SOLD row.
C2_SoldRowImmutable ==
    [][ /\ \A id \in PropertyIds :
              has_sold_row(listing_history, id) =>
                  SoldRowsOf(listing_history', id) = SoldRowsOf(listing_history, id)
        /\ \A id \in skipped' :
              /\ SoldRowCount(listing_history', id) = 1
              /\ ~ raised' ]_vars

\* C2 witness: the last call skipped a SOLD record of P1 on a later day than the
\* one its SOLD row was stored on; P1's SOLD records differ in price, so some
\* skipped record differs from the stored row.
C2_Witness ==
    /\ "P1" \in skipped
    /\ ~ raised
    /\ \E r \in Rows(listing_history) :
          r.property_id = "P1" /\ r.status = "sold" /\ r.date < today

\* C3: ingesting a FOR_SALE record a second time on the same capture date leaves
\* properties and listing_history as the first ingestion left them.
C3_SameDayReingestIdempotent ==
    \A l \in SaleListings :
        LET first == save_listings(Ledger, <<l>>, today)
            second == save_listings([properties |-> first.properties,
                                     listing_history |-> first.listing_history],
                                    <<l>>, today)
        IN /\ second.properties = first.properties
           /\ second.listing_history = first.listing_history
           /\ ~ second.error

\* C3 witness: a FOR_SALE record of today is stored next to other rows, so its
\* second ingestion finds its own row.
C3_Witness ==
    \E l \in SaleListings :
        /\ BagIn(HistoryRow(l, today), listing_history)
        /\ BagCardinality(listing_history) >= 2

\* The rows of table whose key is not (id, date, status), with their copies.
OtherKeys(table, id, date, status) ==
    [r \in { x \in Rows(table) :
               ~ (x.property_id = id /\ x.date = date /\ x.status = status) }
        |-> table[r]]

\* The rows of table whose key is (id, date, status), with their copies.
OfKey(table, id, date, status) ==
    [r \in { x \in Rows(table) :
               x.property_id = id /\ x.date = date /\ x.status = status }
        |-> table[r]]

\* C15: the key (property_id, date, status) is unique in listing_history; and
\* ingesting a FOR_SALE record leaves exactly one row of its key, holding the
\* record's values, and every row of another key, another date included, as it
\* was.
C15_KeyUnique ==
    /\ \A r \in Rows(listing_history) :
          /\ listing_history[r] = 1
          /\ \A x \in Rows(listing_history) :
                (x.property_id = r.property_id /\ x.date = r.date
                    /\ x.status = r.status) => x = r
    /\ \A l \in SaleListings :
          LET after == save_listings(Ledger, <<l>>, today)
          IN /\ ~ after.error
             /\ OfKey(after.listing_history, l.id, today, "sale")
                  = SetToBag({[property_id |-> l.id, date |-> today,
                               status |-> "sale",
                               price_display |-> l.price_display,
                               price_value |-> l.price_value,
                               sold_date_iso |-> l.sold_date_iso]})
             /\ OtherKeys(after.listing_history, l.id, today, "sale")
                  = OtherKeys(listing_history, l.id, today, "sale")

\* C15 witness: P1 has a FOR_SALE row of an earlier date and one of today at
\* $1, which the record at $2 overwrites.
C15_Witness ==
    /\ \E r \in Rows(listing_history) :
          /\ r.property_id = "P1" /\ r.status = "sale" /\ r.date = today
          /\ r.price_display = Some(Price1)
    /\ \E r \in Rows(listing_history) :
          r.property_id = "P1" /\ r.status = "sale" /\ r.date < today

\* C19: a save_listings call on capture date d leaves every row of another date
\* as it was and stores rows dated d only; the clock never goes back and no row
\* is dated after it, so each property's rows are written in non-decreasing
\* order of capture date.
C19_AppendOnly ==
    [][ /\ today' >= today
        /\ \A r \in Rows(listing_history) : r.date <= today
        /\ \A r \in Rows(listing_history) \cup Rows(listing_history') :
              r.date # today =>
                  CopiesIn(r, listing_history') = CopiesIn(r, listing_history) ]_vars

\* C19 witness: a call of day 2 has stored a FOR_SALE row of P1 next to P1's
\* FOR_SALE row of day 1.
C19_Witness ==
    /\ today = 2
    /\ \E r1 \in Rows(listing_history), r2 \in Rows(listing_history) :
          /\ r1.property_id = "P1" /\ r1.status = "sale" /\ r1.date = 1
          /\ r2.property_id = "P1" /\ r2.status = "sale" /\ r2.date = 2
          /\ r1.price_value # r2.price_value

---------------------------------------------------------------------------
\* Claims about the diff classifier (checked under Spec).

Changes(target_date) == get_comprehensive_daily_changes(Ledger, target_date)

\* The properties of a list of joined rows.
IdsOf(entries) == { e.row.property_id : e \in entries }

SaleRowsOn(date) ==
    { r \in Rows(listing_history) : r.date = date /\ r.status = "sale" }

\* The pairs <<FOR_SALE row on date, FOR_SALE row on prev>> of one property.
SalePairs(date, prev) ==
    { pair \in SaleRowsOn(date) \X SaleRowsOn(prev) :
        pair[1].property_id = pair[2].property_id }

\* Equality of two display prices up to case and surrounding whitespace; a
\* missing display price counts as the empty string.
NormalizedEqual(a, b) ==
    lower(strip(OrElse(a, <<>>))) = lower(strip(OrElse(b, <<>>)))

\* The maximum capture date of the ledger strictly before date, if any.
HasPrevDate(date) == \E r \in Rows(listing_history) : r.date < date
PrevDate(date) ==
    MaxOf({ r.date : r \in { x \in Rows(listing_history) : x.date < date } })

\* C6 (as claimed): a FOR_SALE snapshot on the target date is classified against
\* its property's own latest earlier FOR_SALE snapshot, whatever its date: when
\* that pair is a price change or a revealed guide, it is reported as one.
C6_ComparedWithOwnLatestPrior ==
    \A t \in Dates : \A h_now \in SaleRowsOn(t) :
        LET earlier == { r \in Rows(listing_history) :
                           /\ r.property_id = h_now.property_id
                           /\ r.status = "sale" /\ r.date < t }
        IN earlier # {} =>
             LET own == CHOOSE r \in earlier : \A x \in earlier : x.date <= r.date
                 d == JoinedRow(h_now, own)
             IN /\ classify_price_row(d) \in {"price_diff", "price_hidden"}
                     => price_change_entry(d) \in Changes(t).price_changes
                /\ classify_price_row(d) = "guide_revealed"
                     => d \in Changes(t).guide_revealed

C8_NoEventOnCaseOrWhitespace ==
    \A t \in Dates :
        HasPrevDate(t) =>
            \A pair \in SalePairs(t, PrevDate(t)) :
                NormalizedEqual(pair[1].price_display, pair[2].price_display) =>
                    /\ pair[1].property_id \notin IdsOf(Changes(t).price_changes)
                    /\ pair[1].property_id \notin IdsOf(Changes(t).guide_revealed)

\* C8 witness: the two stored display prices differ in case and whitespace only,
\* and the price values differ.
C8_Witness ==
    \E t \in Dates :
        /\ HasPrevDate(t)
        /\ \E pair \in SalePairs(t, PrevDate(t)) :
              /\ pair[1].price_display # pair[2].price_display
              /\ NormalizedEqual(pair[1].price_display, pair[2].price_display)
              /\ pair[1].price_value # pair[2].price_value

\* C9: with no row dated before the target date, NEW is the set of the FOR_SALE
\* rows of the target date, one entry each, and the other four lists are empty.
C9_Bootstrap ==
    \A t \in Dates :
        ~ HasPrevDate(t) =>
            /\ Changes(t).new = SaleRowsOn(t)
            /\ Changes(t).sold = {}
            /\ Changes(t).disappeared = {}
            /\ Changes(t).price_changes = {}
            /\ Changes(t).guide_revealed = {}

\* C9 witness: the first capture date holds several FOR_SALE rows and a SOLD row.
C9_Witness ==
    \E t \in Dates :
        /\ ~ HasPrevDate(t)
        /\ Cardinality(SaleRowsOn(t)) >= 2
        /\ \E r \in Rows(listing_history) : r.date = t /\ r.status = "sold"
        /\ Cardinality(Changes(t).new) = Cardinality(SaleRowsOn(t))

\* The pairs of C10: the display prices differ after normalization, and either
\* both price values are known and differ or a known one became unknown.
IsPriceChange(pair) ==
    /\ ~ NormalizedEqual(pair[1].price_display, pair[2].price_display)
    /\ \/ /\ pair[2].price_value > 0 /\ pair[1].price_value > 0
          /\ pair[2].price_value # pair[1].price_value
       \/ pair[2].price_value > 0 /\ pair[1].price_value = 0

\* C10: PRICE_CHANGE holds exactly the FOR_SALE rows of the target date that
\* make such a pair with the property's FOR_SALE row of the previous date, each
\* once, and with price_diff = new price - old price when both are known.
C10_PriceChangeExactly ==
    \A t \in Dates :
        LET pairs == IF HasPrevDate(t)
                     THEN { q \in SalePairs(t, PrevDate(t)) : IsPriceChange(q) }
                     ELSE {}
        IN /\ { e.row : e \in Changes(t).price_changes } = { q[1] : q \in pairs }
           /\ Cardinality(Changes(t).price_changes) = Cardinality(pairs)
           /\ \A e \in Changes(t).price_changes :
                 /\ \E q \in pairs :
                       /\ q[1] = e.row
                       /\ q[2].price_display = e.old_price
                       /\ q[2].price_value = e.old_price_value
                 /\ (e.old_price_value > 0 /\ e.row.price_value > 0) =>
                       e.price_diff = Some(e.row.price_value - e.old_price_value)

\* C10 witness: $1,000,000 on the previous date, $1,050,000 on the target date,
\* one PRICE_CHANGE with price_diff = +50,000.
C10_Witness ==
    \E t \in Dates :
        \E e \in Changes(t).price_changes :
            /\ e.old_price_value = 1000000 /\ e.row.price_value = 1050000
            /\ e.price_diff = Some(50000)
            /\ Cardinality(Changes(t).price_changes) = 1

---------------------------------------------------------------------------
\* Claims about the accuracy report (checked under SpecAcc).

Comparisons == get_prediction_accuracy_report(Ledger, Estimates)

\* The day of the sale of a SOLD row: sold_date_iso, or the capture date.
SaleDate(sold) == OrElse(sold.sold_date_iso, sold.date)

\* C4 (as claimed): every model prediction and every third-party estimate in a
\* comparison was produced strictly before the property's sale.
C4_NoLookAhead ==
    \A c \in Comparisons :
        /\ c.xgboost_date # None => c.xgboost_date[1] < c.sold_date_iso
        /\ c.domain_date # None => c.domain_date[1] < c.sold_date_iso

\* The estimate records of a property produced strictly before date.
EstimatesBefore(id, date) ==
    { r \in domain_estimates_history \cup domain_estimates :
        r.property_id = id /\ r.scraped_at < date }

PredictionsBefore(id, date) ==
    { r \in xgboost_predictions : r.property_id = id /\ r.predicted_at < date }

\* C5 (as claimed): a sold property with a prediction or an estimate produced
\* strictly before its sale has a comparison that holds the latest such record.
C5_LatestRecordBeforeSale ==
    \A sold \in sold_properties(Ledger) :
        LET id == sold.property_id
            before == EstimatesBefore(id, SaleDate(sold))
            predicted == PredictionsBefore(id, SaleDate(sold))
        IN /\ before # {} =>
                \E c \in Comparisons :
                    /\ c.property_id = id
                    /\ c.domain_date = Some(MaxOf({ r.scraped_at : r \in before }))
           /\ predicted # {} =>
                \E c \in Comparisons :
                    /\ c.property_id = id
                    /\ c.xgboost_date
                         = Some(MaxOf({ r.predicted_at : r \in predicted }))

\* The rows of the ledger dated date.
RowsOn(date) == { r \in Rows(listing_history) : r.date = date }

SoldRowsOn(date) == { r \in RowsOn(date) : r.status = "sold" }

\* C12: DISAPPEARED for a target date holds exactly the properties with a
\* FOR_SALE row on the previous date and no row of any status on the target
\* date, and no property is both DISAPPEARED and a SOLD-transition.
C12_DisappearedExactly ==
    \A t \in Dates :
        LET ch == Changes(t)
            gone == IF HasPrevDate(t)
                    THEN { r \in SaleRowsOn(PrevDate(t)) :
                             \A x \in RowsOn(t) : x.property_id # r.property_id }
                    ELSE {}
        IN /\ ch.disappeared = gone
           /\ { r.property_id : r \in ch.disappeared } \cap IdsOf(ch.sold) = {}

\* C12 witness: of two properties for sale on the previous date, one has a SOLD
\* row on the target date and is a SOLD-transition, the other has no row and is
\* DISAPPEARED.
C12_Witness ==
    \E t \in Dates :
        /\ Changes(t).disappeared # {}
        /\ Changes(t).sold # {}

\* C13: SOLD-transition for a target date holds exactly the SOLD rows of that
\* date whose property has a FOR_SALE row on the previous date, the maximum
\* capture date of the ledger before the target date; a SOLD row of a property
\* without such a row yields none.
C13_SoldTransitionExactly ==
    \A t \in Dates :
        LET ch == Changes(t)
            turned == IF HasPrevDate(t)
                      THEN { r \in SoldRowsOn(t) :
                               \E x \in SaleRowsOn(PrevDate(t)) :
                                   x.property_id = r.property_id }
                      ELSE {}
        IN /\ { e.row : e \in ch.sold } = turned
           /\ Cardinality(ch.sold) = Cardinality(turned)
           /\ \A e \in ch.sold :
                 \E x \in SaleRowsOn(PrevDate(t)) :
                     /\ x.property_id = e.row.property_id
                     /\ e.old_price = x.price_display
                     /\ e.old_price_value = x.price_value

\* C13 witness: on a target date with a previous date, the SOLD row of a
\* property for sale on the previous date is a SOLD-transition and the SOLD row
\* of another property is none.
C13_Witness ==
    \E t \in Dates :
        /\ HasPrevDate(t)
        /\ Changes(t).sold # {}
        /\ \E r \in SoldRowsOn(t) : r.property_id \notin IdsOf(Changes(t).sold)

\* The capture date property id was first seen on, as properties records it.
FirstSeen(id) == (CHOOSE p \in properties : p.property_id = id).first_seen

\* The capture date of the earliest row of property id.
FirstRowDate(id) ==
    CHOOSE d \in { r.date : r \in Rows(listing_history) } :
        /\ \E r \in Rows(listing_history) : r.property_id = id /\ r.date = d
        /\ \A r \in Rows(listing_history) : r.property_id = id => d <= r.date

\* C14: with a previous date, NEW for a target date holds exactly the rows of
\* that date whose property was first seen on it; and whatever the history, a
\* property is NEW for the capture date of its first observation only.
C14_NewExactly ==
    \A t \in Dates :
        /\ HasPrevDate(t) =>
              Changes(t).new
                  = { r \in RowsOn(t) : FirstSeen(r.property_id) = t }
        /\ \A r \in Changes(t).new :
              /\ t = FirstSeen(r.property_id)
              /\ t = FirstRowDate(r.property_id)

\* C14 witness: on a date after its first one a property has a row and is not
\* NEW, while another property is NEW on that date.
C14_Witness ==
    \E t \in Dates :
        /\ HasPrevDate(t)
        /\ Changes(t).new # {}
        /\ \E r \in RowsOn(t) : r \notin Changes(t).new

---------------------------------------------------------------------------
\* Claims relating the two change reports (checked under Spec).

DailyChanges(target_date) == get_daily_changes(Ledger, target_date)

---------------------------------------------------------------------------
\* Claims about the latest listings (checked under SpecLatest).

LatestListings(status) == get_latest_listings(Ledger, Estimates, status)

\* The rows of property id with the given status.
StatusRows(id, status) ==
    { r \in Rows(listing_history) : r.property_id = id /\ r.status = status }

\* C16: for either status, get_latest_listings returns one row for each
\* property with a row of that status, the one of the greatest capture date
\* among the property's rows of that status, and no other row.
C16_LatestPerPropertyAndStatus ==
    \A status \in {"sale", "sold"} :
        /\ \A id \in PropertyIds :
              LET mine == { e \in LatestListings(status) : e.row.property_id = id }
              IN IF StatusRows(id, status) = {}
                 THEN mine = {}
                 ELSE /\ Cardinality(mine) = 1
                      /\ \A e \in mine :
                            /\ e.row \in StatusRows(id, status)
                            /\ \A r \in StatusRows(id, status) : r.date <= e.row.date
        /\ \A e \in LatestListings(status) : e.row.property_id \in PropertyIds

\* C16 witness: P1's latest FOR_SALE row is older than its SOLD row and than
\* the latest row of the ledger, and is returned with P1's prediction.
C16_Witness ==
    \E e \in LatestListings("sale") :
        /\ e.row.property_id = "P1"
        /\ e.xp # None
        /\ \E r \in StatusRows("P1", "sold") : r.date > e.row.date
        /\ \E r \in StatusRows("P2", "sale") : r.date > e.row.date

---------------------------------------------------------------------------
\* Claims about the listed price of the accuracy report (checked under SpecAcc).

\* The FOR_SALE rows of property id dated strictly before date.
SaleRowsBefore(id, date) ==
    { r \in Rows(listing_history) :
        r.property_id = id /\ r.status = "sale" /\ r.date < date }

\* C17 (as claimed): the listed price of a comparison is the price of the
\* property's latest FOR_SALE row dated strictly before the capture date of its
\* SOLD row; a FOR_SALE row dated on or after that date is never used.
C17_ListedPriceBeforeSale ==
    \A c \in Comparisons :
        c.listed_price # None =>
            /\ c.listed_date[1] < c.record_date
            /\ \E r \in SaleRowsBefore(c.property_id, c.record_date) :
                  /\ r.price_value = c.listed_price[1]
                  /\ r.date = c.listed_date[1]
                  /\ \A x \in SaleRowsBefore(c.property_id, c.record_date) :
                        x.date <= r.date

---------------------------------------------------------------------------
\* Claims about the property records (checked under SpecCatalog).

KnownIds(table) == { p.property_id : p \in table }

\* C18: a property record is created once, by the first save_listings call that
\* stores a row of its id, with first_seen the capture date of that call; no
\* step deletes it or changes its first_seen, address, suburb or url; and a step
\* that changes a catchment flag changes nothing else, as update_catchment_flags
\* does.
C18_PropertyFrame ==
    [][ /\ \A p \in properties :
              \E q \in properties' :
                  /\ q.property_id = p.property_id
                  /\ q.first_seen = p.first_seen
                  /\ q.address = p.address
                  /\ q.suburb = p.suburb
                  /\ q.url = p.url
        /\ \A q1 \in properties', q2 \in properties' :
              q1.property_id = q2.property_id => q1 = q2
        /\ \A q \in properties' :
              q.property_id \notin KnownIds(properties) =>
                  /\ q.first_seen = today
                  /\ \A r \in Rows(listing_history) : r.property_id # q.property_id
                  /\ \E r \in Rows(listing_history') :
                        r.property_id = q.property_id /\ r.date = today
        /\ (\E p \in properties, q \in properties' :
                /\ q.property_id = p.property_id
                /\ q.in_excelsior_catchment # p.in_excelsior_catchment)
              => /\ listing_history' = listing_history
                 /\ KnownIds(properties') = KnownIds(properties) ]_vars

\* C18 witness: P1, first seen on day 1 and flagged since, has been scraped
\* again on day 2.
C18_Witness ==
    /\ today = 2
    /\ \E p \in properties :
          /\ p.property_id = "P1" /\ p.first_seen = 1
          /\ p.in_excelsior_catchment = 1
    /\ \E r \in Rows(listing_history) : r.property_id = "P1" /\ r.date = 2

---------------------------------------------------------------------------
\* Claims about the rolling average (checked under SpecRolling).

\* Equality of two fractions.
SameValue(a, b) == a[1] * b[2] = b[1] * a[2]

\* The samples with a price per m2, of the given suburbs (names compared in
\* upper case), sold in [current_date - lookback_days, current_date).
Window(suburbs, current_date, lookback_days) ==
    [r \in { x \in BagToSet(df) :
               /\ x.price_per_m2 # None
               /\ x.price_per_m2[1] > 0
               /\ x.suburb \in suburbs
               /\ x.sold_date_parsed >= current_date - lookback_days
               /\ x.sold_date_parsed < current_date }
        |-> df[r]]

AllSuburbs == { k.suburb : k \in SampleKinds }

\* The suburb of SampleKinds a request names.
Named(suburb) ==
    IF suburb = "castle hill" THEN "CASTLE HILL" ELSE "BAULKHAM HILLS"

\* The sum of price per m2 over a bag of samples.
RECURSIVE PriceSum(_, _)
PriceSum(samples, rows) ==
    IF rows = {} THEN 0
    ELSE LET r == CHOOSE x \in rows : TRUE
         IN samples[r] * r.price_per_m2[1] + PriceSum(samples, rows \ {r})

\* The rolling average as claimed: the mean over the suburb's window when it
\* has at least 5 samples, else the mean over the window of all suburbs when
\* that has at least 5, else the default.
Claimed(suburb, current_date, lookback_days, default) ==
    LET own == Window({Named(suburb)}, current_date, lookback_days)
        all == Window(AllSuburbs, current_date, lookback_days)
    IN IF BagCardinality(own) >= 5
       THEN <<PriceSum(own, BagToSet(own)), BagCardinality(own)>>
       ELSE IF BagCardinality(all) >= 5
       THEN <<PriceSum(all, BagToSet(all)), BagCardinality(all)>>
       ELSE <<default, 1>>

\* compute_rolling_avg_price_per_m2 returns the rolling average as claimed.
PackageRollingAsClaimed ==
    \A suburb \in RequestSuburbs, current_date \in CurrentDates,
       lookback_days \in Lookbacks :
        SameValue(compute_rolling_avg_price_per_m2(df, current_date, suburb,
                                                   lookback_days),
                  Claimed(suburb, current_date, lookback_days, 5000))

\* A first call of PropertyValuationModel._compute_rolling_avg_price_per_m2 for
\* its suburb and month returns the rolling average as claimed, the default
\* being the model's own.
LegacyRollingAsClaimed ==
    \A suburb \in RequestSuburbs, current_date \in CurrentDates,
       lookback_days \in Lookbacks :
        SameValue(_compute_rolling_avg_price_per_m2({}, df, current_date, suburb,
                                                    lookback_days).value,
                  Claimed(suburb, current_date, lookback_days, 10000))

\* C20 (as claimed): the rolling average of either implementation is the mean
\* over the suburb's window when it has at least 5 samples, else the mean over
\* the same window of all suburbs when that has at least 5, else the default.
C20_RollingAverage == PackageRollingAsClaimed /\ LegacyRollingAsClaimed

\* The key a request is cached under: its suburb and the month of its date.
KeyOf(suburb, current_date) == <<suburb, (current_date - 1) \div DaysPerMonth>>

\* A step in which PropertyValuationModel keeps one value per key, never replaces it, and
\* returns it to every later request of that key.
LegacyCacheKept ==
    /\ \A e \in rolling_avg_cache : e \in rolling_avg_cache'
    /\ \A e1 \in rolling_avg_cache', e2 \in rolling_avg_cache' :
          e1.key = e2.key => e1 = e2
    /\ \A suburb \in RequestSuburbs, current_date \in CurrentDates,
          lookback_days \in Lookbacks :
          \A e \in rolling_avg_cache :
              e.key = KeyOf(suburb, current_date) =>
                  _compute_rolling_avg_price_per_m2(
                      rolling_avg_cache, df, current_date, suburb,
                      lookback_days).value = e.value

\* A step in which a request of compute_rolling_avg_price_per_m2 gets the value
\* the request before it got, when the two have one key and one lookback.
PackageSameKeySameValue ==
    (/\ rolling_avg # None /\ rolling_avg' # None
     /\ KeyOf(rolling_avg'[1].suburb, rolling_avg'[1].current_date)
          = KeyOf(rolling_avg[1].suburb, rolling_avg[1].current_date)
     /\ rolling_avg'[1].lookback_days = rolling_avg[1].lookback_days)
        => SameValue(rolling_avg'[1].value, rolling_avg[1].value)

\* C21 (as claimed): in either implementation the value of a key (suburb, month
\* of the date) is computed once, and every later request of the key gets the
\* stored value.
C21_CachedPerSuburbMonth ==
    [][LegacyCacheKept /\ PackageSameKeySameValue]_vars

---------------------------------------------------------------------------
\* The errors, the statistics and the winners of the accuracy report.
\* A percentage with one decimal (the value of round(x, 1)) is the integer
\* number of its tenths: 4.8% is 48.

MaxComparisons == 3

abs(x) == IF x < 0 THEN -x ELSE x

\* round(n / d, 1) in tenths, n being in tenths and d positive: the nearest
\* integer to n / d, the even one of the two when n / d is halfway.
round1(n, d) ==
    LET q == n \div d
        r == n % d
    IN IF 2 * r < d THEN q
       ELSE IF 2 * r > d THEN q + 1
       ELSE IF q % 2 = 0 THEN q ELSE q + 1

\* round((price - sold_price) / sold_price * 100, 1)
error_pct(price, sold_price) == round1(1000 * (price - sold_price), sold_price)

\* The comparison of one sold property, from the rows selected for it: the
\* price of a source is None when no row was selected or its price is not
\* truthy (not positive, for the listing).
comparison(sold_price, listing, xgb, domain) ==
    LET listed == listing # None /\ listing[1] > 0
        hasXgb == xgb # None /\ xgb[1] # 0
        hasDomain == domain # None /\ domain[1] # 0
    IN [sold_price |-> sold_price,
        listed_price |-> IF listed THEN listing ELSE None,
        listed_error_pct |->
            IF listed THEN Some(error_pct(listing[1], sold_price)) ELSE None,
        xgboost_price |-> IF hasXgb THEN xgb ELSE None,
        xgboost_error_pct |->
            IF hasXgb THEN Some(error_pct(xgb[1], sold_price)) ELSE None,
        domain_estimate |-> IF hasDomain THEN domain ELSE None,
        domain_error_pct |->
            IF hasDomain THEN Some(error_pct(domain[1], sold_price)) ELSE None]

\* 'if comparison[...] or comparison[...] or comparison[...]'
has_prediction(c) ==
    c.listed_price # None \/ c.xgboost_price # None \/ c.domain_estimate # None

RECURSIVE insort(_, _)
\* s is ascending; x put at its place.
insort(s, x) ==
    IF s = <<>> THEN <<x>>
    ELSE IF x <= Head(s) THEN <<x>> \o s
    ELSE <<Head(s)>> \o insort(Tail(s), x)

RECURSIVE sorted(_)
sorted(s) == IF s = <<>> THEN <<>> ELSE insort(sorted(Tail(s)), Head(s))

RECURSIVE total_abs(_)
\* total_error: the sum of abs(e) over the list.
total_abs(errors) ==
    IF errors = <<>> THEN 0 ELSE abs(Head(errors)) + total_abs(Tail(errors))

RECURSIVE errors_of(_, _)
\* stats[key]['errors']: the errors of source key that are not None, in the
\* order of the comparisons.
errors_of(cs, key) ==
    IF cs = <<>> THEN <<>>
    ELSE (IF Head(cs)[key] # None THEN <<Head(cs)[key][1]>> ELSE <<>>)
            \o errors_of(Tail(cs), key)

\* sorted([abs(e) for e in errors])
sorted_abs(errors) == sorted([i \in 1..Len(errors) |-> abs(errors[i])])

RECURSIVE total_signed(_)
total_signed(errors) ==
    IF errors = <<>> THEN 0 ELSE Head(errors) + total_signed(Tail(errors))

\* stats[key] with the signed errors in place of their absolute values
source_stats_signed(errors) ==
    LET count == Len(errors)
        ordered == sorted(errors)
    IN [count |-> count,
        mape |-> IF count > 0 THEN Some(round1(total_signed(errors), count)) ELSE None,
        median_error |->
            IF count > 0 THEN Some(ordered[(count \div 2) + 1]) ELSE None]

\* stats[key]: count, mape and median_error of one source.
source_stats(errors) ==
    LET count == Len(errors)
        ordered == sorted_abs(errors)
    IN [count |-> count,
        mape |-> IF count > 0 THEN Some(round1(total_abs(errors), count)) ELSE None,
        median_error |->
            IF count > 0 THEN Some(ordered[(count \div 2) + 1]) ELSE None]

\* The dict 'stats' of get_prediction_accuracy_report.
stats_of(cs) ==
    [with_comparisons |-> Len(cs),
     listed |-> source_stats(errors_of(cs, "listed_error_pct")),
     xgboost |-> source_stats(errors_of(cs, "xgboost_error_pct")),
     domain |-> source_stats(errors_of(cs, "domain_error_pct"))]

\* The list 'errors' of the winner column: a pair per error that is not None.
winner_errors(c) ==
    (IF c.listed_error_pct # None
     THEN << <<"Listed", abs(c.listed_error_pct[1])>> >> ELSE <<>>)
    \o (IF c.xgboost_error_pct # None
        THEN << <<"XGBoost", abs(c.xgboost_error_pct[1])>> >> ELSE <<>>)
    \o (IF c.domain_error_pct # None
        THEN << <<"Domain", abs(c.domain_error_pct[1])>> >> ELSE <<>>)

\* min(errors, key=lambda x: x[1]): the first pair whose error no pair is below.
min_by_error(errors) ==
    errors[CHOOSE i \in 1..Len(errors) :
             /\ \A j \in 1..Len(errors) : errors[i][2] <= errors[j][2]
             /\ \A j \in 1..(i - 1) : errors[j][2] > errors[i][2]]

\* The winner column with an error of 0.0 taken for a missing one
winner_truthy(c) ==
    LET errors == SelectSeq(winner_errors(c), LAMBDA e : e[2] # 0)
    IN IF errors # <<>> THEN min_by_error(errors)[1] ELSE "-"

\* winner = min(errors, key=lambda x: x[1])[0] if errors else "-"
winner(c) ==
    LET errors == winner_errors(c)
    IN IF errors # <<>> THEN min_by_error(errors)[1] ELSE "-"

\* The comparisons of the statistics scenarios: a sale at 1000, a listing that
\* is missing, unpriced, exact, 0.4% above or 10% below, a prediction 10% above
\* and an estimate 10% below.
StatComparisons ==
    { c \in { comparison(1000, listing, xgb, domain) :
                listing \in {None, Some(0), Some(1000), Some(1004), Some(900)},
                xgb \in {None, Some(1100)},
                domain \in {None, Some(900)} } : has_prediction(c) }

\* The comparisons of the winner scenarios.
WinnerComparisons ==
    { c \in { comparison(1000, listing, xgb, domain) :
                listing \in {None, Some(0), Some(1000), Some(1004), Some(900)},
                xgb \in {None, Some(1000), Some(1004), Some(1100)},
                domain \in {None, Some(900), Some(1004), Some(1100)} } :
        has_prediction(c) }

\* get_prediction_accuracy_report has built its list of comparisons.
InitStats ==
    /\ today = 1
    /\ properties = {}
    /\ listing_history = EmptyBag
    /\ xgboost_predictions = {}
    /\ domain_estimates = {}
    /\ domain_estimates_history = {}
    /\ raised = FALSE
    /\ skipped = {}
    /\ df = EmptyBag
    /\ rolling_avg = None
    /\ rolling_avg_cache = {}
    /\ comparisons \in SeqsUpTo(StatComparisons, MaxComparisons)
    /\ stats = None
    /\ winners = None
    /\ InitStore
    /\ InitRun
    /\ InitTools
    /\ InitSummary

\* get_prediction_accuracy_report: the aggregate statistics of the list.
GetPredictionAccuracyReport ==
    /\ stats' = Some(stats_of(comparisons))
    /\ UNCHANGED <<today, ledgerVars, estimateVars, callVars, mlVars, toolVars, summaryVars, runVars,
                   comparisons, winners, storeVars>>

NextStats == GetPredictionAccuracyReport

SpecStats == InitStats /\ [][NextStats]_vars

\* The report of one sold property.
InitWinner ==
    /\ today = 1
    /\ properties = {}
    /\ listing_history = EmptyBag
    /\ xgboost_predictions = {}
    /\ domain_estimates = {}
    /\ domain_estimates_history = {}
    /\ raised = FALSE
    /\ skipped = {}
    /\ df = EmptyBag
    /\ rolling_avg = None
    /\ rolling_avg_cache = {}
    /\ comparisons \in { <<c>> : c \in WinnerComparisons }
    /\ stats = None
    /\ winners = None
    /\ InitStore
    /\ InitRun
    /\ InitTools
    /\ InitSummary

\* _build_prediction_accuracy_section and the --accuracy-report printout: the
\* report is fetched and the winner of each row is determined.
BuildPredictionAccuracySection ==
    /\ stats' = Some(stats_of(comparisons))
    /\ winners' = Some([i \in 1..Len(comparisons) |-> winner(comparisons[i])])
    /\ UNCHANGED <<today, ledgerVars, estimateVars, callVars, mlVars, toolVars, summaryVars, runVars,
                   comparisons, storeVars>>

NextWinner == BuildPredictionAccuracySection

SpecWinner == InitWinner /\ [][NextWinner]_vars

---------------------------------------------------------------------------
\* Claims about the winner column (checked under SpecWinner).

\* The sources of a comparison in the order they are checked, each with its
\* price and its error.
Sources(c) ==
    << [name |-> "Listed", price |-> c.listed_price, error |-> c.listed_error_pct],
       [name |-> "XGBoost", price |-> c.xgboost_price, error |-> c.xgboost_error_pct],
       [name |-> "Domain", price |-> c.domain_estimate, error |-> c.domain_error_pct] >>

Populated(src) == src.price # None

\* Source i of comparison c is the winner the claim describes: it is populated,
\* no populated source has a smaller absolute error, and every populated
\* source before it has a greater one.
IsClaimedWinner(c, i) ==
    LET src == Sources(c)
    IN /\ Populated(src[i])
       /\ \A j \in 1..3 : Populated(src[j]) =>
              abs(src[i].error[1]) <= abs(src[j].error[1])
       /\ \A j \in 1..(i - 1) : Populated(src[j]) =>
              abs(src[j].error[1]) > abs(src[i].error[1])

\* C22: the winner of each compared property is a populated source of minimum
\* absolute error, the first of them in the order listed price, model
\* prediction, third-party estimate; a source that is not populated never wins.
C22_Winner ==
    winners # None =>
        \A k \in 1..Len(comparisons) :
            \E i \in 1..3 :
                /\ IsClaimedWinner(comparisons[k], i)
                /\ winners[1][k] = Sources(comparisons[k])[i].name

\* The model prediction has won a tie with the third-party estimate for a
\* property that has no listed price.
C22_Witness ==
    /\ winners # None
    /\ \E k \in 1..Len(comparisons) :
          LET c == comparisons[k]
          IN /\ winners[1][k] = "XGBoost"
             /\ c.listed_price = None
             /\ c.domain_estimate # None
             /\ abs(c.domain_error_pct[1]) = abs(c.xgboost_error_pct[1])

---------------------------------------------------------------------------
\* Claims about the aggregate statistics (checked under SpecStats).

SourceKeys == {"listed", "xgboost", "domain"}

PriceOf(c, key) ==
    CASE key = "listed" -> c.listed_price
      [] key = "xgboost" -> c.xgboost_price
      [] key = "domain" -> c.domain_estimate

AbsErrorOf(c, key) ==
    CASE key = "listed" -> abs(c.listed_error_pct[1])
      [] key = "xgboost" -> abs(c.xgboost_error_pct[1])
      [] key = "domain" -> abs(c.domain_error_pct[1])

\* The positions of the compared properties where source key is populated.
PopulatedAt(key) ==
    { k \in 1..Len(comparisons) : PriceOf(comparisons[k], key) # None }

RECURSIVE AbsErrorSum(_, _)
\* The sum of the absolute errors of source key over the positions of set.
AbsErrorSum(set, key) ==
    IF set = {} THEN 0
    ELSE LET k == CHOOSE x \in set : TRUE
         IN AbsErrorOf(comparisons[k], key) + AbsErrorSum(set \ {k}, key)

\* m is the element at index n \div 2 (from 0) of the ascending list of the
\* absolute errors of source key: it is one of them, at most n \div 2 of them
\* are below it and more than n \div 2 are not above it.
IsMedianError(m, key) ==
    LET at == PopulatedAt(key)
        mid == Cardinality(at) \div 2
    IN /\ \E k \in at : AbsErrorOf(comparisons[k], key) = m
       /\ Cardinality({ k \in at : AbsErrorOf(comparisons[k], key) < m }) <= mid
       /\ Cardinality({ k \in at : AbsErrorOf(comparisons[k], key) <= m }) > mid

\* Count and median of every source are as claimed, and a source populated
\* for no property has neither MAPE nor median.
CountAndMedianAsClaimed ==
    \A key \in SourceKeys :
        LET at == PopulatedAt(key)
            st == stats[1][key]
        IN /\ st.count = Cardinality(at)
           /\ at = {} => st.mape = None /\ st.median_error = None
           /\ at # {} => /\ st.mape # None
                         /\ st.median_error # None
                         /\ IsMedianError(st.median_error[1], key)

\* C23 (as claimed): per source, count is the number of compared properties
\* where the source is populated, MAPE is the mean of their absolute errors,
\* the median error is the element at index len//2 of their ascending list,
\* and a source populated for no property has no MAPE and no median.
C23_StatsAsClaimed ==
    stats # None =>
        /\ CountAndMedianAsClaimed
        /\ \A key \in SourceKeys :
              PopulatedAt(key) # {} =>
                  stats[1][key].mape[1] * Cardinality(PopulatedAt(key))
                      = AbsErrorSum(PopulatedAt(key), key)

\* C23 (amended): the same, MAPE being the mean rounded to one decimal, that
\* is, the one-decimal value within 0.05 of the mean.
C23_StatsRounded ==
    stats # None =>
        /\ CountAndMedianAsClaimed
        /\ \A key \in SourceKeys :
              PopulatedAt(key) # {} =>
                  2 * abs(stats[1][key].mape[1] * Cardinality(PopulatedAt(key))
                            - AbsErrorSum(PopulatedAt(key), key))
                      <= Cardinality(PopulatedAt(key))

\* A report over an even number of listed prices whose two middle errors
\* differ, one of them negative, with a source populated for no property.
C23_Witness ==
    /\ stats # None
    /\ Cardinality(PopulatedAt("listed")) = 2
    /\ \E k \in PopulatedAt("listed") : comparisons[k].listed_error_pct[1] < 0
    /\ \E k \in PopulatedAt("listed") : comparisons[k].listed_error_pct[1] = 0
    /\ PopulatedAt("domain") = {}
    /\ stats[1].listed.median_error = Some(100)

---------------------------------------------------------------------------
\* save_listings statement by statement, against a store that another
\* connection may lock. save_call is None or Some of a record: state is
\* "running", "committed" or the exception that ended the call, before is the
\* store as the rollback journal of the transaction keeps it, pending is the
\* store as the transaction has written it, rest are the listings still to be
\* saved and today_str is the date the call read at its start.

MaxStoreRows == 3
MaxStoreBatch == 2

StoreBatches == SeqsUpTo(LedgerListings, MaxStoreBatch) \ {<<>>}

StoreOf(txn) ==
    [properties |-> txn.properties, listing_history |-> txn.listing_history]

\* Mutant: the connection commits whatever the block has written, as a
\* 'finally: conn.commit()' would.
conn_exit_commit(before, pending, exc) == StoreOf(pending)

\* 'with sqlite3.connect(...) as conn': at the end of the block the connection
\* commits when the block ended normally and rolls back when an exception
\* left it.
conn_exit(before, pending, exc) == IF exc THEN before ELSE StoreOf(pending)

Running == save_call # None /\ save_call[1].state = "running"

\* Another connection takes or releases a lock on the database file.
OtherConnection ==
    /\ locked' = ~ locked
    /\ UNCHANGED <<today, ledgerVars, estimateVars, callVars, mlVars, toolVars, summaryVars, runVars,
                   reportVars, save_call>>

\* save_listings is called: it reads the clock and opens the connection.
BeginSaveListings ==
    \E batch \in StoreBatches :
        /\ ~ Running
        /\ BagCardinality(listing_history) + Len(batch) <= MaxStoreRows
        /\ save_call' = Some([state |-> "running", before |-> Ledger,
                              pending |-> Txn(Ledger), rest |-> batch,
                              today_str |-> today])
        /\ UNCHANGED <<today, ledgerVars, estimateVars, callVars, mlVars, toolVars, summaryVars, runVars,
                       reportVars, locked>>

\* The call ends in exception exc, the transaction having written pending: the
\* exception leaves the with block and propagates to the caller.
EndInException(pending, exc) ==
    LET db == conn_exit(save_call[1].before, pending, TRUE)
    IN /\ properties' = db.properties
       /\ listing_history' = db.listing_history
       /\ save_call' = Some([save_call[1] EXCEPT !.state = exc,
                                                 !.pending = pending])
       /\ raised' = TRUE
       /\ skipped' = {}

\* One iteration of the loop. A statement executed while the store is locked
\* raises OperationalError, before or after the INSERT INTO properties of the
\* iteration.
SaveListingStep ==
    /\ Running
    /\ save_call[1].rest # <<>>
    /\ LET call == save_call[1]
           l == Head(call.rest)
           saved == save_listing(call.pending, l, call.today_str)
       IN \/ /\ locked
             /\ \E pending \in
                    {call.pending,
                     [call.pending EXCEPT !.properties =
                         save_property(call.pending.properties, l, call.today_str)]} :
                    EndInException(pending, "OperationalError")
          \/ /\ ~ locked
             /\ saved.error
             /\ EndInException(call.pending, "IntegrityError")
          \/ /\ ~ locked
             /\ ~ saved.error
             /\ save_call' = Some([call EXCEPT !.pending = saved,
                                               !.rest = Tail(call.rest)])
             /\ UNCHANGED <<ledgerVars, callVars>>
    /\ UNCHANGED <<today, estimateVars, mlVars, toolVars, summaryVars, runVars, reportVars, locked>>

\* conn.commit() and the end of the with block.
CommitSaveListings ==
    /\ Running
    /\ save_call[1].rest = <<>>
    /\ \/ /\ locked
          /\ EndInException(save_call[1].pending, "OperationalError")
       \/ /\ ~ locked
          /\ LET db == conn_exit(save_call[1].before, save_call[1].pending, FALSE)
             IN /\ properties' = db.properties
                /\ listing_history' = db.listing_history
          /\ save_call' = Some([save_call[1] EXCEPT !.state = "committed"])
          /\ raised' = FALSE
          /\ skipped' = save_call[1].pending.skipped
    /\ UNCHANGED <<today, estimateVars, mlVars, toolVars, summaryVars, runVars, reportVars, locked>>

NextStore ==
    \/ OtherConnection
    \/ BeginSaveListings
    \/ SaveListingStep
    \/ CommitSaveListings

SpecStore == Init /\ [][NextStore]_vars

---------------------------------------------------------------------------
\* Claims about a locked store (checked under SpecStore).

\* A statement or the commit of the running call is executed while the store
\* is locked.
ExecutedWhileLocked == Running /\ locked /\ save_call' # save_call

\* C24: when the store is locked at a statement or at the commit of
\* save_listings, the call ends there in a storage error, the store is as it
\* was before the call, whatever the transaction had written, and it stays so
\* for as long as no other call is made: nothing is tried again.
C24_LockedStoreFailsClean ==
    [][ /\ ExecutedWhileLocked =>
              /\ save_call'[1].state = "OperationalError"
              /\ raised'
              /\ Ledger' = save_call[1].before
        /\ (save_call # None /\ save_call[1].state = "OperationalError"
              /\ save_call' = save_call) =>
              /\ Ledger' = save_call[1].before
              /\ raised' ]_vars

\* A call has failed on a locked store after its transaction had written a
\* property and a snapshot row.
C24_Witness ==
    /\ save_call # None
    /\ save_call[1].state = "OperationalError"
    /\ save_call[1].pending.properties # save_call[1].before.properties
    /\ save_call[1].pending.listing_history # save_call[1].before.listing_history
    /\ Ledger = save_call[1].before

---------------------------------------------------------------------------
\* The daily summary.

\* SELECT COUNT(*) over the rows of table that are in set.
count_rows(table, set) ==
    BagCardinality([r \in { x \in Rows(table) : x \in set } |-> table[r]])

\* The first COUNT of update_daily_stats: FOR_SALE on the latest earlier date,
\* no row on the target date. The subquery is NULL when no date is earlier, and
\* no row passes the comparison with it.
count_disappeared(table, target_date) ==
    LET prev == prev_date_of(table, target_date)
    IN count_rows(table,
          { h_prev \in Rows(table) :
              /\ prev # None /\ h_prev.date = prev[1]
              /\ h_prev.status = "sale"
              /\ ~ \E h_now \in Rows(table) :
                      /\ h_now.property_id = h_prev.property_id
                      /\ h_now.date = target_date })

\* The second COUNT of update_daily_stats: SOLD on the target date, FOR_SALE
\* on the latest earlier date.
count_moved_to_sold(table, target_date) ==
    LET prev == prev_date_of(table, target_date)
    IN count_rows(table,
          { h \in Rows(table) :
              /\ h.date = target_date /\ h.status = "sold"
              /\ \E h_prev \in Rows(table) :
                    /\ h_prev.property_id = h.property_id
                    /\ prev # None /\ h_prev.date = prev[1]
                    /\ h_prev.status = "sale" })

\* The row update_daily_stats computes for target_date.
daily_stats(db, target_date) ==
    LET changes == get_daily_changes(db, target_date)
    IN [date |-> target_date,
        new_count |-> Cardinality(changes.NEW),
        sold_count |-> count_disappeared(db.listing_history, target_date)
                         + count_moved_to_sold(db.listing_history, target_date),
        adj_count |-> Cardinality(changes.ADJUSTMENT)]

\* PropertyDB.update_daily_stats: INSERT OR REPLACE INTO daily_summary, whose
\* primary key is date.
update_daily_stats(db, table, target_date) ==
    { r \in table : r.date # target_date } \cup {daily_stats(db, target_date)}

\* update_daily_stats(d) for a date up to today.
UpdateDailyStats ==
    \E d \in 1..today :
        /\ daily_summary' = update_daily_stats(Ledger, daily_summary, d)
        /\ UNCHANGED <<today, ledgerVars, estimateVars, callVars, mlVars, toolVars, summaryVars,
                       reportVars, storeVars, run>>

NextDaily == Tick \/ SaveListings \/ UpdateDailyStats

SpecDaily == Init /\ [][NextDaily]_vars

---------------------------------------------------------------------------
\* Claims about the daily summary (checked under SpecDaily).

\* row is the row the claim describes for date d on the present ledger.
CountsAgree(row, d) ==
    LET changes == get_comprehensive_daily_changes(Ledger, d)
    IN /\ row.date = d
       /\ row.new_count = Cardinality(changes.new)
       /\ row.sold_count = Cardinality(changes.sold) + Cardinality(changes.disappeared)

\* C29 (as claimed): the row update_daily_stats(d) writes has the new_count and
\* the sold_count of the typed change feed of d, it is the only row of d, and a
\* second call on the same ledger rewrites that row.
C29_DailyCountsAgree ==
    [][ (daily_summary' # daily_summary /\ UNCHANGED ledgerVars) =>
            \E d \in Dates :
               /\ \A r \in daily_summary' : r.date # d => r \in daily_summary
               /\ \E row \in daily_summary' :
                     /\ CountsAgree(row, d)
                     /\ \A r \in daily_summary' : r.date = d => r = row
               /\ update_daily_stats(Ledger, daily_summary', d) = daily_summary'
      ]_vars

---------------------------------------------------------------------------
\* run_all and run_daily, step by step. run is None or Some of a record: mode
\* is "all" or "daily", pc is the step the run is at, sale_date and sold_date
\* are the dates save_listings stored the two batches under, stats_date is the
\* date update_daily_stats was called with and report_date the date the change
\* reports were computed for; each is None until its step is done. Every step
\* reads the clock anew, and the clock moves between the steps.

MaxRunDate == 2
MaxRunRows == 3
MaxRunBatch == 1

\* The lists scrape_mode collects in mode status.
RunBatches(status) ==
    SeqsUpTo({ l \in LedgerListings : l.status = status }, MaxRunBatch)

AtStep(pc) == run # None /\ run[1].pc = pc

RunTick ==
    /\ today < MaxRunDate
    /\ today' = today + 1
    /\ UNCHANGED <<ledgerVars, estimateVars, callVars, mlVars, toolVars, summaryVars, reportVars,
                   storeVars, runVars>>

\* run_all or run_daily is started, no run being in progress.
StartRun ==
    \E mode \in {"all", "daily"} :
        /\ IF run = None THEN TRUE ELSE run[1].pc \in {"done", "failed"}
        /\ run' = Some([mode |-> mode, pc |-> "sale", sale_date |-> None,
                        sold_date |-> None, stats_date |-> None,
                        report_date |-> None])
        /\ UNCHANGED <<today, ledgerVars, estimateVars, callVars, mlVars, toolVars, summaryVars,
                       reportVars, storeVars, daily_summary>>

\* scrape_mode ends with save_listings(self.listings), which stores the batch
\* under the date it reads; its exception ends the run.
ScrapeMode(status, date_field, next_pc) ==
    \E batch \in RunBatches(status) :
        LET db == save_listings(Ledger, batch, today)
        IN /\ BagCardinality(db.listing_history) <= MaxRunRows
           /\ properties' = db.properties
           /\ listing_history' = db.listing_history
           /\ run' = Some(IF db.error
                          THEN [run[1] EXCEPT !.pc = "failed"]
                          ELSE [run[1] EXCEPT !.pc = next_pc,
                                              ![date_field] = Some(today)])

\* await self.scrape_mode(crawler, 'sale')
ScrapeSale ==
    /\ AtStep("sale")
    /\ ScrapeMode("sale", "sale_date", "sold")
    /\ UNCHANGED <<today, estimateVars, callVars, mlVars, toolVars, summaryVars, reportVars,
                   storeVars, daily_summary>>

\* await self.scrape_mode(crawler, 'sold'); run_all goes on to the catchment
\* flags, run_daily to the daily statistics.
ScrapeSold ==
    /\ AtStep("sold")
    /\ ScrapeMode("sold", "sold_date",
                  IF run[1].mode = "all" THEN "catchment" ELSE "stats")
    /\ UNCHANGED <<today, estimateVars, callVars, mlVars, toolVars, summaryVars, reportVars,
                   storeVars, daily_summary>>

\* run_all: self.db.update_catchment_flags(catchment_ids)
RunUpdateCatchmentFlags ==
    /\ AtStep("catchment")
    /\ \E catchment_ids \in SUBSET PropertyIds :
          properties' = update_catchment_flags(properties, catchment_ids)
    /\ run' = Some([run[1] EXCEPT !.pc = "stats"])
    /\ UNCHANGED <<today, listing_history, estimateVars, callVars, mlVars, toolVars, summaryVars,
                   reportVars, storeVars, daily_summary>>

\* today = datetime.now().strftime('%Y-%m-%d'); self.db.update_daily_stats(today)
RunUpdateDailyStats ==
    /\ AtStep("stats")
    /\ daily_summary' = update_daily_stats(Ledger, daily_summary, today)
    /\ run' = Some([run[1] EXCEPT !.pc = "reports", !.stats_date = Some(today)])
    /\ UNCHANGED <<today, ledgerVars, estimateVars, callVars, mlVars, toolVars, summaryVars,
                   reportVars, storeVars>>

\* generate_all_reports: _build_daily_changes_section reads the date and calls
\* get_comprehensive_daily_changes(today).
GenerateAllReports ==
    /\ AtStep("reports")
    /\ run' = Some([run[1] EXCEPT !.pc = "done", !.report_date = Some(today)])
    /\ UNCHANGED <<today, ledgerVars, estimateVars, callVars, mlVars, toolVars, summaryVars,
                   reportVars, storeVars, daily_summary>>

NextRun ==
    \/ RunTick
    \/ StartRun
    \/ ScrapeSale
    \/ ScrapeSold
    \/ RunUpdateCatchmentFlags
    \/ RunUpdateDailyStats
    \/ GenerateAllReports

SpecRun == Init /\ [][NextRun]_vars

---------------------------------------------------------------------------
\* Claims about the order of a run (checked under SpecRun).

\* The daily statistics and the change reports of a run are computed after
\* both of its batches were committed.
AfterBothBatches ==
    run # None =>
        /\ run[1].stats_date # None =>
              run[1].sale_date # None /\ run[1].sold_date # None
        /\ run[1].report_date # None =>
              run[1].sale_date # None /\ run[1].sold_date # None

\* C25 (as claimed): the daily statistics and the change reports of a run are
\* computed after both of its batches were committed, and for the date the
\* batches were stored under.
C25_StatsAfterBatchesForTheirDate ==
    /\ AfterBothBatches
    /\ run # None =>
          /\ run[1].stats_date # None =>
                run[1].stats_date = run[1].sale_date
                    /\ run[1].stats_date = run[1].sold_date
          /\ run[1].report_date # None =>
                run[1].report_date = run[1].sale_date
                    /\ run[1].report_date = run[1].sold_date

---------------------------------------------------------------------------
\* Tool executions (api/tools.py). tool_executions[id] is the row of execution
\* id, ids being given in the order of the INSERTs. worker[id] is the _run_tool
\* call the thread pool holds for it: pc is the statement it is at and
\* final_status its local variable. process[id] is "none" until Popen has
\* started the subprocess, then "alive", then how it ended.

MaxExecutions == 2
MaxWorkers == 2

ToolIds == {"scraper", "train-model"}
ExecutionIds == 1..MaxExecutions
TerminalStatuses == {"completed", "failed", "cancelled"}

nonToolVars ==
    <<today, ledgerVars, estimateVars, callVars, mlVars, reportVars, storeVars,
      runVars, summaryVars>>

\* UPDATE tool_executions SET status = ? WHERE id = ?
set_status(table, id, status) == [table EXCEPT ![id].status = status]

\* SELECT id FROM tool_executions WHERE tool_id = ? AND status = 'running'
running_of(table, tool_id) ==
    { id \in DOMAIN table :
        table[id].tool_id = tool_id /\ table[id].status = "running" }

\* The calls a thread of the pool is running.
ActiveWorkers ==
    { id \in DOMAIN worker : worker[id].pc \notin {"submitted", "ended"} }

At(id, pc) == id \in DOMAIN worker /\ worker[id].pc = pc

Goto(id, pc) == worker' = [worker EXCEPT ![id].pc = pc]

\* start_tool_execution: ValueError when an execution of the tool is
\* 'running'; otherwise a 'pending' row is inserted and _run_tool submitted.
StartToolExecution ==
    \E tool_id \in ToolIds :
        /\ Len(tool_executions) < MaxExecutions
        /\ running_of(tool_executions, tool_id) = {}
        /\ tool_executions' =
              Append(tool_executions, [tool_id |-> tool_id, status |-> "pending"])
        /\ worker' = Append(worker, [pc |-> "submitted", final_status |-> "failed"])
        /\ process' = Append(process, "none")
        /\ UNCHANGED <<nonToolVars, running_processes, cancel_returned>>

\* A free thread of the pool takes the oldest submitted call; the call sets its
\* final_* variables and builds the command.
WorkerBegins ==
    \E id \in DOMAIN worker :
        /\ At(id, "submitted")
        /\ \A j \in 1..(id - 1) : ~ At(j, "submitted")
        /\ Cardinality(ActiveWorkers) < MaxWorkers
        /\ Goto(id, "mark_running")
        /\ UNCHANGED <<nonToolVars, tool_executions, process, running_processes,
                       cancel_returned>>

\* 'Update status to running': the UPDATE is outside every try block, so its
\* exception ends the call.
MarkRunning ==
    \E id \in DOMAIN worker :
        /\ At(id, "mark_running")
        /\ \/ /\ tool_executions' = set_status(tool_executions, id, "running")
              /\ Goto(id, "validate")
           \/ /\ Goto(id, "ended")
              /\ UNCHANGED tool_executions
        /\ UNCHANGED <<nonToolVars, process, running_processes, cancel_returned>>

\* The script is missing, Python is not accessible, or the main block starts.
Validate ==
    \E id \in DOMAIN worker :
        /\ At(id, "validate")
        /\ \E found \in {"script_missing", "python_invalid", "ok"} :
              Goto(id, IF found = "ok" THEN "popen" ELSE "final_update")
        /\ UNCHANGED <<nonToolVars, tool_executions, process, running_processes,
                       cancel_returned>>

\* subprocess.Popen starts the process, or raises and 'except Exception' sets
\* final_status = "failed".
Popen ==
    \E id \in DOMAIN worker :
        /\ At(id, "popen")
        /\ \/ /\ process' = [process EXCEPT ![id] = "alive"]
              /\ Goto(id, "track")
           \/ /\ worker' = [worker EXCEPT ![id].pc = "pop",
                                          ![id].final_status = "failed"]
              /\ UNCHANGED process
        /\ UNCHANGED <<nonToolVars, tool_executions, running_processes,
                       cancel_returned>>

\* with _process_lock: _running_processes[execution_id] = process
Track ==
    \E id \in DOMAIN worker :
        /\ At(id, "track")
        /\ running_processes' = running_processes \cup {id}
        /\ Goto(id, "wait")
        /\ UNCHANGED <<nonToolVars, tool_executions, process, cancel_returned>>

\* The subprocess ends by itself, with exit code 0 or another.
ProcessExits ==
    \E id \in DOMAIN process :
        /\ process[id] = "alive"
        /\ \E code \in {"exit_0", "exit_1"} :
              process' = [process EXCEPT ![id] = code]
        /\ UNCHANGED <<nonToolVars, tool_executions, worker, running_processes,
                       cancel_returned>>

\* communicate() returns: final_status = "completed" if final_exit_code == 0
\* else "failed".
WaitReturns ==
    \E id \in DOMAIN worker :
        /\ At(id, "wait")
        /\ process[id] # "alive"
        /\ worker' = [worker EXCEPT
              ![id].pc = "pop",
              ![id].final_status =
                  IF process[id] = "exit_0" THEN "completed" ELSE "failed"]
        /\ UNCHANGED <<nonToolVars, tool_executions, process, running_processes,
                       cancel_returned>>

\* subprocess.TimeoutExpired: the process is killed, final_status = "failed".
Timeout ==
    \E id \in DOMAIN worker :
        /\ At(id, "wait")
        /\ process[id] = "alive"
        /\ process' = [process EXCEPT ![id] = "killed"]
        /\ worker' = [worker EXCEPT ![id].pc = "pop",
                                    ![id].final_status = "failed"]
        /\ UNCHANGED <<nonToolVars, tool_executions, running_processes,
                       cancel_returned>>

\* finally: with _process_lock: _running_processes.pop(execution_id, None)
Pop ==
    \E id \in DOMAIN worker :
        /\ At(id, "pop")
        /\ running_processes' = running_processes \ {id}
        /\ Goto(id, "final_update")
        /\ UNCHANGED <<nonToolVars, tool_executions, process, cancel_returned>>

\* 'Update final status in database': UPDATE ... SET status = final_status
\* WHERE id = ?, or its exception, which is logged.
FinalUpdate ==
    \E id \in DOMAIN worker :
        /\ At(id, "final_update")
        /\ \/ tool_executions' =
                 set_status(tool_executions, id, worker[id].final_status)
           \/ UNCHANGED tool_executions
        /\ Goto(id, "ended")
        /\ UNCHANGED <<nonToolVars, process, running_processes, cancel_returned>>

\* cancel_execution, under _process_lock: a tracked process that has not ended
\* is terminated, the row set to 'cancelled' and True returned; otherwise False.
CancelExecution ==
    \E id \in ExecutionIds :
        /\ IF id \in running_processes /\ process[id] = "alive"
           THEN /\ process' = [process EXCEPT ![id] = "terminated"]
                /\ tool_executions' = set_status(tool_executions, id, "cancelled")
                /\ cancel_returned' = cancel_returned \cup {<<id, TRUE>>}
           ELSE /\ cancel_returned' = cancel_returned \cup {<<id, FALSE>>}
                /\ UNCHANGED <<process, tool_executions>>
        /\ UNCHANGED <<nonToolVars, worker, running_processes>>

\* The steps of the worker threads.
WorkerStep ==
    \/ WorkerBegins
    \/ MarkRunning
    \/ Validate
    \/ Popen
    \/ Track
    \/ WaitReturns
    \/ Timeout
    \/ Pop
    \/ FinalUpdate

NextTools ==
    \/ StartToolExecution
    \/ CancelExecution
    \/ ProcessExits
    \/ WorkerBegins
    \/ MarkRunning
    \/ Validate
    \/ Popen
    \/ Track
    \/ WaitReturns
    \/ Timeout
    \/ Pop
    \/ FinalUpdate

SpecTools == Init /\ [][NextTools]_vars

\* The threads of the pool go on running: a call that can take a step takes one.
SpecToolsFair == SpecTools /\ WF_vars(WorkerStep)

---------------------------------------------------------------------------
\* Claims about the tool executions (checked under SpecTools, the liveness
\* claim under SpecToolsFair).

StatusOf(id) == tool_executions[id].status

\* A thread of the pool has taken the call of execution id.
Scheduled(id) == id \in DOMAIN worker /\ worker[id].pc # "submitted"

HasTerminalStatus(id) ==
    id \in DOMAIN tool_executions /\ StatusOf(id) \in TerminalStatuses

\* C26 (as claimed): an execution whose worker is scheduled eventually has a
\* terminal status.
C26_EventuallyTerminal ==
    \A id \in ExecutionIds :
        Scheduled(id) ~> HasTerminalStatus(id)

\* C27 (as claimed): once cancel_execution(id) has returned True the status of
\* id is 'cancelled', whatever the worker does afterwards; a call that returns
\* False changes neither a row nor a process.
C27_CancelSticks ==
    [][ /\ \A id \in ExecutionIds :
              <<id, TRUE>> \in cancel_returned' => StatusOf(id)' = "cancelled"
        /\ (\E id \in ExecutionIds :
              <<id, FALSE>> \in cancel_returned' \ cancel_returned) =>
              UNCHANGED <<tool_executions, process, running_processes>> ]_vars

\* C28 (as claimed): no two executions of one tool are 'running' at a time.
C28_OneRunningPerTool ==
    \A tool_id \in ToolIds :
        Cardinality(running_of(tool_executions, tool_id)) <= 1

---------------------------------------------------------------------------
\* The summary of a tool's output (api/tools.py). _run_tool hands the captured
\* stdout and stderr of the finished process to _extract_summary, which
\* returns the human-readable summary stored in tool_executions.summary and
\* the JSON summary stored in summary_json. Strings are sequences of
\* characters; str.find returns a position counted from 1, and 0 where
\* Python returns -1.

\* lines[-1][:200]
SummaryLimit == 200

\* stderr.strip()[:100]
ErrorLimit == 100

\* for_sale_list[:5]
AddressLimit == 5

\* The longest plain line a tool prints ("x" * 300 in the unit test).
MaxLineLen == 300

\* The most lines of a tool's output.
MaxLines == 2

\* The most properties for sale of a catchment summary.
MaxForSale == 6

\* s[:n]
take(s, n) == SubSeq(s, 1, IF Len(s) < n THEN Len(s) ELSE n)

\* s.find(sub, start)
find(s, sub, start) ==
    LET hits == { i \in start..(Len(s) - Len(sub) + 1) :
                      SubSeq(s, i, i + Len(sub) - 1) = sub }
    IN  IF hits = {} THEN 0 ELSE CHOOSE i \in hits : \A j \in hits : i <= j

\* s.split("\n")
split(s) ==
    LET cuts == {0} \cup { i \in 1..Len(s) : s[i] = "\n" } \cup {Len(s) + 1}
        cut(k) == CHOOSE x \in cuts : Cardinality({ y \in cuts : y < x }) = k
    IN  [k \in 1..(Cardinality(cuts) - 1) |->
            SubSeq(s, cut(k - 1) + 1, cut(k) - 1)]

\* sep.join(parts)
RECURSIVE join(_, _)
join(sep, parts) ==
    IF parts = <<>> THEN <<>>
    ELSE IF Len(parts) = 1 THEN parts[1]
    ELSE parts[1] \o sep \o join(sep, Tail(parts))

\* str(n) of a count.
RECURSIVE str(_)
str(n) ==
    LET digits == <<"0", "1", "2", "3", "4", "5", "6", "7", "8", "9">>
    IN  IF n < 10 THEN <<digits[n + 1]>>
        ELSE str(n \div 10) \o <<digits[(n % 10) + 1]>>

\* d.get(key, default); a dict is a record and {} is <<>>.
Get(d, key, default) == IF key \in DOMAIN d THEN d[key] ELSE default

\* "---JSON_SUMMARY_START---"
StartMarker ==
    <<"-", "-", "-", "J", "S", "O", "N", "_", "S", "U", "M", "M", "A", "R",
      "Y", "_", "S", "T", "A", "R", "T", "-", "-", "-">>

\* "---JSON_SUMMARY_END---"
EndMarker ==
    <<"-", "-", "-", "J", "S", "O", "N", "_", "S", "U", "M", "M", "A", "R",
      "Y", "_", "E", "N", "D", "-", "-", "-">>

\* The summaries a tool prints between the markers (json.dumps(summary) on one
\* line), each with the value json.loads returns for it.
\* '{"scraper_summary": {"daily_changes": {"new_count": 1}}}'
ScraperJsonText ==
    <<"{", "\"", "s", "c", "r", "a", "p", "e", "r", "_", "s", "u", "m", "m",
      "a", "r", "y", "\"", ":", " ", "{", "\"", "d", "a", "i", "l", "y", "_",
      "c", "h", "a", "n", "g", "e", "s", "\"", ":", " ", "{", "\"", "n", "e",
      "w", "_", "c", "o", "u", "n", "t", "\"", ":", " ", "1", "}", "}", "}">>

\* "12 Long Street Name, Castle Hill NSW 2154"
Address ==
    <<"1", "2", " ", "L", "o", "n", "g", " ", "S", "t", "r", "e", "e", "t",
      " ", "N", "a", "m", "e", ",", " ", "C", "a", "s", "t", "l", "e", " ",
      "H", "i", "l", "l", " ", "N", "S", "W", " ", "2", "1", "5", "4">>

\* The catchment summary of n properties for sale.
CatchmentJson(n) ==
    [catchment_summary |->
        [properties_marked |-> n,
         for_sale |-> [i \in 1..n |-> [address |-> Address]]]]

\* '{"catchment_summary": {"properties_marked": n, "for_sale": [{"address":
\* "..."}, ...]}}'
CatchmentJsonText(n) ==
    LET head ==
            <<"{", "\"", "c", "a", "t", "c", "h", "m", "e", "n", "t", "_",
              "s", "u", "m", "m", "a", "r", "y", "\"", ":", " ", "{", "\"",
              "p", "r", "o", "p", "e", "r", "t", "i", "e", "s", "_", "m",
              "a", "r", "k", "e", "d", "\"", ":", " ">>
        list ==
            <<",", " ", "\"", "f", "o", "r", "_", "s", "a", "l", "e", "\"",
              ":", " ", "[">>
        entry ==
            <<"{", "\"", "a", "d", "d", "r", "e", "s", "s", "\"", ":", " ",
              "\"">>
                \o Address \o <<"\"", "}">>
    IN  head \o str(n) \o list
            \o join(<<",", " ">>, [i \in 1..n |-> entry])
            \o <<"]", "}", "}">>

\* json.loads(json_str), with JSONDecodeError caught by the caller as None.
json_loads(json_str) ==
    IF json_str = ScraperJsonText
    THEN Some([scraper_summary |-> [daily_changes |-> [new_count |-> 1]]])
    \* '{}'
    ELSE IF json_str = <<"{", "}">> THEN Some(<<>>)
    ELSE IF \E n \in 0..MaxForSale : json_str = CatchmentJsonText(n)
    THEN Some(CatchmentJson(CHOOSE n \in 0..MaxForSale :
                                json_str = CatchmentJsonText(n)))
    ELSE None

_extract_json_summary(stdout) ==
    IF stdout = <<>> THEN None
    ELSE
        LET start_idx == find(stdout, StartMarker, 1) IN
        IF start_idx = 0 THEN None
        ELSE
            LET end_idx == find(stdout, EndMarker, start_idx) IN
            IF end_idx = 0 THEN None
            ELSE json_loads(strip(SubSeq(stdout, start_idx + Len(StartMarker),
                                         end_idx - 1)))

_format_json_summary(data, tool_id) ==
    LET bar == <<" ", "|", " ">>
        scraper_summary(s) ==
            LET changes == Get(s, "daily_changes", <<>>)
                current == Get(s, "current_stats", <<>>)
                new_count == Get(changes, "new_count", 0)
                sold_count == Get(changes, "sold_count", 0)
                adj_count == Get(changes, "adjusted_count", 0)
                total == Get(current, "total_for_sale", 0)
                \* f"{new_count} new, {sold_count} sold, {adj_count} adjusted"
                counts ==
                    str(new_count) \o <<" ", "n", "e", "w", ",", " ">>
                        \o str(sold_count) \o <<" ", "s", "o", "l", "d", ",", " ">>
                        \o str(adj_count)
                        \o <<" ", "a", "d", "j", "u", "s", "t", "e", "d">>
                \* f"{total} active"
                active == str(total) \o <<" ", "a", "c", "t", "i", "v", "e">>
                parts ==
                    (IF new_count # 0 \/ sold_count # 0 \/ adj_count # 0
                     THEN <<counts>> ELSE <<>>)
                        \o (IF total # 0 THEN <<active>> ELSE <<>>)
            IN  IF parts # <<>> THEN Some(join(bar, parts)) ELSE None
        catchment_summary(s) ==
            LET marked == Get(s, "properties_marked", 0)
                for_sale == Get(s, "for_sale_count", 0)
                sold == Get(s, "sold_count", 0)
                for_sale_list == Get(s, "for_sale", <<>>)
                shown == take(for_sale_list, AddressLimit)
                \* f"+{len(for_sale_list) - 5} more"
                more ==
                    <<"+">> \o str(Len(for_sale_list) - AddressLimit)
                        \o <<" ", "m", "o", "r", "e">>
                addresses ==
                    [i \in 1..Len(shown) |->
                        Get(shown[i], "address",
                            <<"U", "n", "k", "n", "o", "w", "n">>)]
                        \o (IF Len(for_sale_list) > AddressLimit
                            THEN <<more>> ELSE <<>>)
                \* f"Catchment: {marked} properties marked"
                head ==
                    <<"C", "a", "t", "c", "h", "m", "e", "n", "t", ":", " ">>
                        \o str(marked)
                        \o <<" ", "p", "r", "o", "p", "e", "r", "t", "i", "e", "s",
                      " ", "m", "a", "r", "k", "e", "d">>
                \* f"({for_sale} for sale, {sold} sold)"
                counts ==
                    <<"(">> \o str(for_sale)
                        \o <<" ", "f", "o", "r", " ", "s", "a", "l", "e", ",", " ">>
                        \o str(sold) \o <<" ", "s", "o", "l", "d", ")">>
                \* f"For sale: {', '.join(addresses)}"
                listed ==
                    <<"F", "o", "r", " ", "s", "a", "l", "e", ":", " ">>
                        \o join(<<",", " ">>, addresses)
                parts ==
                    <<head>>
                        \o (IF for_sale # 0 \/ sold # 0
                            THEN <<counts>> ELSE <<>>)
                        \o (IF for_sale_list # <<>> THEN <<listed>> ELSE <<>>)
            IN  Some(join(bar, parts))
    IN  IF tool_id = "scraper" /\ "scraper_summary" \in DOMAIN data
        THEN scraper_summary(data.scraper_summary)
        ELSE IF tool_id = "scraper" /\ "catchment_summary" \in DOMAIN data
        THEN catchment_summary(data.catchment_summary)
        ELSE None

_extract_summary(stdout, stderr, tool_id) ==
    LET properties_ == <<"p", "r", "o", "p", "e", "r", "t", "i", "e", "s">>
        scraped == <<"s", "c", "r", "a", "p", "e", "d">>
        estimate == <<"e", "s", "t", "i", "m", "a", "t", "e">>
        processed == <<"p", "r", "o", "c", "e", "s", "s", "e", "d">>
        r2 == <<"r", "2">>
        mae == <<"m", "a", "e">>
        trained == <<"t", "r", "a", "i", "n", "e", "d">>
        predict == <<"p", "r", "e", "d", "i", "c", "t">>
        \* The words a tool's summary line is recognised by.
        keywords ==
            CASE tool_id = "scraper" -> {properties_, scraped}
              [] tool_id = "domain-estimator" -> {estimate, processed}
              [] tool_id = "train-model" -> {r2, mae, trained}
              [] tool_id = "ml-batch-estimates" -> {predict, properties_}
              [] OTHER -> {}
        \* The words that make stderr an error rather than warnings.
        error_indicators ==
            { <<"t", "r", "a", "c", "e", "b", "a", "c", "k">>,
              <<"e", "r", "r", "o", "r", ":">>,
              <<"e", "x", "c", "e", "p", "t", "i", "o", "n">>,
              <<"f", "a", "i", "l", "e", "d">>,
              <<"i", "m", "p", "o", "r", "t", "e", "r", "r", "o", "r">>,
              <<"s", "y", "n", "t", "a", "x", "e", "r", "r", "o", "r">> }
        lines == IF stdout # <<>> THEN split(strip(stdout)) ELSE <<>>
        json_summary == _extract_json_summary(stdout)
        truthy == IF json_summary = None THEN FALSE
                  ELSE DOMAIN json_summary[1] # {}
        summary_json == IF truthy THEN json_summary ELSE None
        human_summary ==
            IF truthy THEN _format_json_summary(json_summary[1], tool_id)
            ELSE None
        hits == { i \in 1..Len(lines) :
                    \E word \in keywords : find(lower(lines[i]), word, 1) # 0 }
        is_actual_error ==
            \E x \in error_indicators : find(lower(stderr), x, 1) # 0
        fallback ==
            IF hits # {} THEN strip(lines[MaxOf(hits)])
            ELSE IF lines # <<>> THEN take(lines[Len(lines)], SummaryLimit)
            ELSE IF stderr # <<>> THEN
                IF is_actual_error
                THEN <<"E", "r", "r", "o", "r", ":", " ">>
                        \o take(strip(stderr), ErrorLimit)
                \* "Completed (see output for details)"
                ELSE <<"C", "o", "m", "p", "l", "e", "t", "e", "d", " ", "(",
                       "s", "e", "e", " ", "o", "u", "t", "p", "u", "t", " ",
                       "f", "o", "r", " ", "d", "e", "t", "a", "i", "l", "s",
                       ")">>
            ELSE <<"N", "o", " ", "o", "u", "t", "p", "u", "t">>
    IN  [summary |-> IF human_summary # None /\ human_summary # Some(<<>>)
                     THEN human_summary[1] ELSE fallback,
         summary_json |-> summary_json]

\* What a finished process has written to stdout: nothing, up to MaxLines
\* lines with or without a final newline, or a line followed by a JSON summary
\* between the markers.
Stdouts ==
    LET long_line == [i \in 1..MaxLineLen |-> "x"]
        \* "Line 1"
        line_1 == <<"L", "i", "n", "e", " ", "1">>
        \* "Scraped 50 properties"
        scraped_line ==
            <<"S", "c", "r", "a", "p", "e", "d", " ", "5", "0", " ", "p",
              "r", "o", "p", "e", "r", "t", "i", "e", "s">>
        \* "Trained and processed 50 properties, predicted xxx..."
        keyword_line ==
            <<"T", "r", "a", "i", "n", "e", "d", " ", "a", "n", "d", " ",
              "p", "r", "o", "c", "e", "s", "s", "e", "d", " ", "5", "0",
              " ", "p", "r", "o", "p", "e", "r", "t", "i", "e", "s", ",",
              " ", "p", "r", "e", "d", "i", "c", "t", "e", "d", " ">>
                \o long_line
        output_lines ==
            { line_1, scraped_line, <<" ">>, long_line, keyword_line }
        \* A summary cut short, on which json.loads raises JSONDecodeError.
        broken_json ==
            <<"{", "\"", "s", "c", "r", "a", "p", "e", "r", "_", "s", "u",
              "m", "m", "a", "r", "y", "\"", ":", " ">>
        json_texts ==
            { ScraperJsonText, <<"{", "}">>, broken_json }
                \cup { CatchmentJsonText(n) : n \in 0..MaxForSale }
    IN  {<<>>}
            \cup { join(<<"\n">>, ls) \o tail :
                     ls \in SeqsUpTo(output_lines, MaxLines) \ {<<>>},
                     tail \in {<<>>, <<"\n">>} }
            \cup { join(<<"\n">>, <<line_1, StartMarker, text, EndMarker>>)
                        \o <<"\n">> : text \in json_texts }

\* What a finished process has written to stderr: nothing, a warning, or a
\* traceback, short or long.
Stderrs ==
    LET \* "UserWarning: deprecated\n"
        warning ==
            <<"U", "s", "e", "r", "W", "a", "r", "n", "i", "n", "g", ":",
              " ", "d", "e", "p", "r", "e", "c", "a", "t", "e", "d", "\n">>
        \* "Traceback (most recent call last)"
        traceback ==
            <<"T", "r", "a", "c", "e", "b", "a", "c", "k", " ", "(", "m",
              "o", "s", "t", " ", "r", "e", "c", "e", "n", "t", " ", "c",
              "a", "l", "l", " ", "l", "a", "s", "t", ")">>
    IN  { <<>>, warning, traceback,
          <<" ">> \o traceback \o [i \in 1..MaxLineLen |-> "x"] }

\* The tools of TOOL_DEFINITIONS and an id that is none of them.
SummaryToolIds ==
    { "scraper", "domain-estimator", "train-model", "ml-batch-estimates",
      "unknown-tool" }

\* A process has finished with some output.
InitOutput ==
    /\ today = 1
    /\ properties = {}
    /\ listing_history = EmptyBag
    /\ xgboost_predictions = {}
    /\ domain_estimates = {}
    /\ domain_estimates_history = {}
    /\ raised = FALSE
    /\ skipped = {}
    /\ df = EmptyBag
    /\ rolling_avg = None
    /\ rolling_avg_cache = {}
    /\ InitReport
    /\ InitStore
    /\ InitRun
    /\ InitTools
    /\ tool_output \in { Some([stdout |-> o, stderr |-> e, tool_id |-> t]) :
                           o \in Stdouts, e \in Stderrs, t \in SummaryToolIds }
    /\ summary = None

\* _run_tool: summary, summary_json = _extract_summary(stdout, stderr, tool_id)
ExtractSummary ==
    /\ tool_output # None
    /\ summary = None
    /\ summary' = Some(_extract_summary(tool_output[1].stdout,
                                        tool_output[1].stderr,
                                        tool_output[1].tool_id))
    /\ UNCHANGED <<today, ledgerVars, estimateVars, callVars, mlVars,
                   reportVars, storeVars, runVars, toolVars, tool_output>>

NextSummary == ExtractSummary

SpecSummary == InitOutput /\ [][NextSummary]_vars

\* C30: the human-readable summary _extract_summary returns is never longer
\* than 200 characters, whatever stdout, stderr and tool id it is given.
C30_SummaryAtMost200 ==
    summary # None => Len(summary[1].summary) <= SummaryLimit

=============================================================================
